---- MODULE Spec2Model ----
(***************************************************************************)
(* Skylark BI agent: the long-lived agent process (app.py, agent.py) and   *)
(* the cleaning pipeline (data_cleaner.py).                                *)
(*                                                                         *)
(* Spec      the service: lifespan start-up, /refresh, /chat,              *)
(*           /leadership-update and /health handlers over one SkylarkAgent *)
(* SpecClean the record builder and its normalizers applied to bounded     *)
(*           raw batches                                                   *)
(***************************************************************************)
EXTENDS Integers, Sequences, FiniteSets, TLC

\* ------------------------------------------------------------------------
\* Bounds
\* ------------------------------------------------------------------------

\* distinct non-empty record sets a board fetch can yield
MaxData == 2
\* /refresh requests that can be in flight together
MaxRefreshRequests == 2

\* longest batch of rows handed to a cleaning pipeline
MaxItems == 2

\* ------------------------------------------------------------------------
\* Service state
\* ------------------------------------------------------------------------

VARIABLES
    agent,                  \* app.agent: "unset" | "ready" | "none"
    deals_board_id,         \* TRUE when DEALS_BOARD_ID is configured
    wo_board_id,            \* TRUE when WORKORDERS_BOARD_ID is configured
    deals_df,               \* SkylarkAgent.deals_df
    workorders_df,          \* SkylarkAgent.workorders_df
    caveats,                \* SkylarkAgent.caveats
    analytics_cache,        \* SkylarkAgent.analytics_cache
    analytics_context_str,  \* SkylarkAgent._analytics_context_str
    last_refresh,           \* SkylarkAgent.last_refresh
    pc,                     \* position of every handler
    running,                \* handlers whose body has started and not ended
    obs,                    \* what a reader in progress has read so far
    call,                   \* data_cleaner function being called, or "none"
    args,                   \* its arguments
    ret                     \* its outcome

svars == <<agent, deals_board_id, wo_board_id, deals_df, workorders_df,
           caveats, analytics_cache, analytics_context_str, last_refresh,
           pc, running, obs>>

cvars == <<call, args, ret>>

\* no data_cleaner call is being followed
NoArgs ==
    [status |-> "", stage |-> "", raw_items |-> <<>>, schema |-> [columns |-> <<>>],
     value |-> <<>>, item |-> <<>>, keywords |-> <<>>,
     deals_df |-> <<>>, workorders_df |-> <<>>, period |-> "", today |-> 0,
     caveats |-> <<>>, clock |-> "", client |-> <<>>, chat |-> <<>>]
NotReturned == [done |-> FALSE, raised |-> FALSE, value |-> <<>>]
NoCall == call = "none" /\ args = NoArgs /\ ret = NotReturned

\* values are tagged pairs so that every field compares with every other
NoneVal == <<"None", 0>>
EmptyDF == <<"frame", 0>>
Now == <<"now", 0>>
FromInit == <<<<"init", 0>>, <<"init", 0>>>>
ApiError == <<"MondayAPIError", 0>>
OtherException == <<"Exception", 0>>

\* a record set: a non-empty data frame is named by the batch it was built from
Data == {<<"frame", n>> : n \in 1..MaxData}
Frames == {EmptyDF} \cup Data

RefreshHandlers == {<<"refresh", i>> : i \in 1..MaxRefreshRequests}
\* one request of /chat, /leadership-update or /health at a time
Reader == <<"reader", 1>>
Lifespan == <<"lifespan", 1>>
Readers == {Reader}
RequestHandlers == RefreshHandlers \cup Readers
Handlers == {Lifespan} \cup RequestHandlers

\* the handlers that are inside SkylarkAgent.refresh_data
InRefresh == {h \in Handlers : pc[h] \in {"fetch_deals", "fetch_wo", "compute"}}

AgentFields == [deals |-> deals_df, wo |-> workorders_df, caveats |-> caveats,
                cache |-> analytics_cache, ctx |-> analytics_context_str,
                last_refresh |-> last_refresh]

\* a reader's observation: the attributes it has read and their values
NoObs == [read |-> {}, deals |-> NoneVal, wo |-> NoneVal,
          caveats |-> [src |-> FromInit], ctx |-> [src |-> FromInit, ok |-> TRUE],
          caveats_text |-> [src |-> FromInit], last_refresh |-> NoneVal]

\* SkylarkAgent.__init__: the data cache after construction
InitAgent ==
    /\ deals_df = NoneVal
    /\ workorders_df = NoneVal
    /\ caveats = [src |-> FromInit]
    /\ analytics_cache = [src |-> FromInit, caveats |-> [src |-> FromInit]]
    /\ analytics_context_str = [src |-> FromInit, ok |-> TRUE]
    /\ last_refresh = NoneVal

SvcInit ==
    /\ agent = "unset"
    /\ deals_board_id = FALSE
    /\ wo_board_id = FALSE
    /\ InitAgent
    /\ pc = [h \in Handlers |-> IF h = Lifespan THEN "construct" ELSE "idle"]
    /\ running = {Lifespan}
    /\ obs = [r \in Readers |-> NoObs]

\* ------------------------------------------------------------------------
\* Scheduling: app.py declares every route `async def` and calls the agent's
\* synchronous methods without awaiting, and uvicorn runs one event loop
\* (uvicorn.run, no workers): a handler body that has started runs to its
\* end before the loop starts another one.
\* ------------------------------------------------------------------------

\* mutant: routes dispatched to a thread pool start while another one runs
MayStart_threadpool(h) == TRUE

MayStart(h) == running = {}

\* uvicorn serves requests once the lifespan start-up has yielded
Serving == pc[Lifespan] = "serving"

EndPc(h) == IF h = Lifespan THEN "serving" ELSE "idle"

\* the handler body ends (return or raised exception turned into a response)
EndHandler(h) ==
    /\ pc' = [pc EXCEPT ![h] = EndPc(h)]
    /\ running' = running \ {h}

Goto(h, label) ==
    /\ pc' = [pc EXCEPT ![h] = label]
    /\ UNCHANGED running

\* a request reaches the server and waits for the event loop
Arrive(h) ==
    /\ Serving
    /\ pc[h] \in {"idle", "responded", "replied_static"}
    /\ pc' = [pc EXCEPT ![h] = "pending"]
    /\ UNCHANGED <<call, args, ret, agent, deals_board_id, wo_board_id, deals_df, workorders_df,
                   caveats, analytics_cache, analytics_context_str,
                   last_refresh, running, obs>>

\* ------------------------------------------------------------------------
\* lifespan: SkylarkAgent() then the initial refresh_data()
\* ------------------------------------------------------------------------

\* MondayClient.__init__ raises ValueError without a token: agent = None
lifespan_construct ==
    /\ pc[Lifespan] = "construct"
    /\ \E token \in BOOLEAN, d \in BOOLEAN, w \in BOOLEAN :
          IF token
          THEN /\ agent' = "ready"
               /\ deals_board_id' = d
               /\ wo_board_id' = w
               /\ Goto(Lifespan, "fetch_deals")
          ELSE /\ agent' = "none"
               /\ UNCHANGED <<deals_board_id, wo_board_id>>
               /\ pc' = [pc EXCEPT ![Lifespan] = "serving"]
               /\ running' = running \ {Lifespan}
    /\ UNCHANGED <<call, args, ret, deals_df, workorders_df, caveats,
                   analytics_cache, analytics_context_str, last_refresh, obs>>

\* ------------------------------------------------------------------------
\* SkylarkAgent.refresh_data, one step per board fetch
\* ------------------------------------------------------------------------

\* get_board_data + clean_*_df: a frame, MondayAPIError, or another exception
FetchOutcomes == {ApiError, OtherException} \cup Frames

RefreshExecutors == {Lifespan} \cup RefreshHandlers

refresh_fetch_deals(h) ==
    /\ h \in running
    /\ pc[h] = "fetch_deals"
    /\ IF deals_board_id
       THEN \E out \in FetchOutcomes :
              /\ deals_df' = (CASE out = ApiError -> NoneVal
                                [] out = OtherException -> deals_df
                                [] OTHER -> out)
              /\ UNCHANGED <<workorders_df, caveats, analytics_cache,
                             analytics_context_str, last_refresh>>
              /\ IF out = OtherException THEN EndHandler(h)
                 ELSE Goto(h, "fetch_wo")
       ELSE /\ UNCHANGED <<deals_df, workorders_df, caveats, analytics_cache,
                           analytics_context_str, last_refresh>>
            /\ Goto(h, "fetch_wo")
    /\ UNCHANGED <<call, args, ret, agent, deals_board_id, wo_board_id, obs>>

refresh_fetch_workorders(h) ==
    /\ h \in running
    /\ pc[h] = "fetch_wo"
    /\ IF wo_board_id
       THEN \E out \in FetchOutcomes :
              /\ workorders_df' = (CASE out = ApiError -> NoneVal
                                     [] out = OtherException -> workorders_df
                                     [] OTHER -> out)
              /\ UNCHANGED <<deals_df, caveats, analytics_cache,
                             analytics_context_str, last_refresh>>
              /\ IF out = OtherException THEN EndHandler(h)
                 ELSE Goto(h, "compute")
       ELSE /\ UNCHANGED <<deals_df, workorders_df, caveats, analytics_cache,
                           analytics_context_str, last_refresh>>
            /\ Goto(h, "compute")
    /\ UNCHANGED <<call, args, ret, agent, deals_board_id, wo_board_id, obs>>

\* compute_caveats(deals_df, workorders_df): a function of the two frames
compute_caveats_of(d, w) == [src |-> <<d, w>>]

\* _build_analytics_context: the cache is assigned first; the summary line
\* indexes deals_df['status'], a KeyError on the column-less empty frame,
\* which the except clause turns into the error string
build_cache(d, w, cav) == [src |-> <<d, w>>, caveats |-> cav]

build_context(d, w) == [src |-> <<d, w>>, ok |-> d # EmptyDF]

\* agent.py:133  deals_df is not None and workorders_df is not None
BothHeld(d, w) == d # NoneVal /\ w # NoneVal

refresh_compute(h) ==
    /\ h \in running
    /\ pc[h] = "compute"
    /\ IF BothHeld(deals_df, workorders_df)
       THEN /\ caveats' = compute_caveats_of(deals_df, workorders_df)
            /\ analytics_cache' = build_cache(deals_df, workorders_df, caveats')
            /\ analytics_context_str' = build_context(deals_df, workorders_df)
       ELSE UNCHANGED <<caveats, analytics_cache, analytics_context_str>>
    /\ last_refresh' = Now
    /\ UNCHANGED <<deals_df, workorders_df>>
    /\ EndHandler(h)
    /\ UNCHANGED <<call, args, ret, agent, deals_board_id, wo_board_id, obs>>

\* app.refresh_data: 503 without an agent, else agent.refresh_data()
refresh_start(h) ==
    /\ pc[h] = "pending"
    /\ MayStart(h)
    /\ IF agent = "ready"
       THEN /\ pc' = [pc EXCEPT ![h] = "fetch_deals"]
            /\ running' = running \cup {h}
       ELSE /\ pc' = [pc EXCEPT ![h] = "idle"]
            /\ UNCHANGED running
    /\ UNCHANGED <<call, args, ret, agent, deals_board_id, wo_board_id, deals_df, workorders_df,
                   caveats, analytics_cache, analytics_context_str,
                   last_refresh, obs>>

\* ------------------------------------------------------------------------
\* Readers: SkylarkAgent.answer (routes /chat and /leadership-update) and
\* SkylarkAgent.get_status (route /health)
\* ------------------------------------------------------------------------

\* the response leaves the handler; "responded" is a reply built from agent
\* fields, "replied_static" one that read none (503, set-up text, clarification)
ReaderEnd(h, label) ==
    /\ pc' = [pc EXCEPT ![h] = label]
    /\ running' = running \ {h}
    /\ obs' = [obs EXCEPT ![h] = NoObs]

\* answer(), general intent: `deals_df is None and workorders_df is None`
\* reads workorders_df only when deals_df is None; the context string is
\* read by _build_system_prompt when data is held
read_general ==
    IF deals_df # NoneVal
    THEN [NoObs EXCEPT !.read = {"deals", "ctx"}, !.deals = deals_df,
                       !.ctx = analytics_context_str]
    ELSE IF workorders_df # NoneVal
    THEN [NoObs EXCEPT !.read = {"deals", "wo", "ctx"}, !.deals = deals_df,
                       !.wo = workorders_df, !.ctx = analytics_context_str]
    ELSE [NoObs EXCEPT !.read = {"deals", "wo"}, !.deals = deals_df,
                       !.wo = workorders_df]

\* _generate_leadership_response: `deals_df is None or workorders_df is None`,
\* then generate_leadership_update(deals_df, workorders_df, caveats) and
\* _build_system_prompt
read_leadership ==
    IF deals_df = NoneVal
    THEN [NoObs EXCEPT !.read = {"deals"}, !.deals = deals_df]
    ELSE IF workorders_df = NoneVal
    THEN [NoObs EXCEPT !.read = {"deals", "wo"}, !.deals = deals_df,
                       !.wo = workorders_df]
    ELSE [NoObs EXCEPT !.read = {"deals", "wo", "caveats", "ctx"},
                       !.deals = deals_df, !.wo = workorders_df,
                       !.caveats = caveats, !.ctx = analytics_context_str]

\* app.chat / app.leadership_update: 503 without an agent; answer() returns
\* the set-up text (no key) or a clarification without touching the data
answer_static(h) ==
    /\ pc[h] = "pending"
    /\ MayStart(h)
    /\ ReaderEnd(h, "replied_static")
    /\ UNCHANGED <<call, args, ret, agent, deals_board_id, wo_board_id, deals_df, workorders_df,
                   caveats, analytics_cache, analytics_context_str,
                   last_refresh>>

\* answer() with a data intent, up to the language-model call
answer_start(h) ==
    /\ pc[h] = "pending"
    /\ MayStart(h)
    /\ agent = "ready"
    /\ \E path \in {"general", "leadership"} :
          LET o == IF path = "general" THEN read_general ELSE read_leadership
          IN IF "ctx" \in o.read
             THEN /\ obs' = [obs EXCEPT ![h] = o]
                  /\ pc' = [pc EXCEPT ![h] = IF path = "general" THEN "llm"
                                             ELSE "llm_leadership"]
                  /\ running' = running \cup {h}
             ELSE ReaderEnd(h, "responded")
    /\ UNCHANGED <<call, args, ret, agent, deals_board_id, wo_board_id, deals_df, workorders_df,
                   caveats, analytics_cache, analytics_context_str,
                   last_refresh>>

\* the language-model call returns (format_caveats_text(self.caveats) is read)
\* or raises (error text; the leadership path rebuilds from the fields)
answer_llm(h) ==
    /\ h \in running
    /\ pc[h] \in {"llm", "llm_leadership"}
    /\ ReaderEnd(h, "responded")
    /\ UNCHANGED <<call, args, ret, agent, deals_board_id, wo_board_id, deals_df, workorders_df,
                   caveats, analytics_cache, analytics_context_str,
                   last_refresh>>

\* app.health_check -> SkylarkAgent.get_status: deals_df, workorders_df and
\* last_refresh are read in one go
get_status(h) ==
    /\ pc[h] = "pending"
    /\ MayStart(h)
    /\ agent = "ready"
    /\ ReaderEnd(h, "responded")
    /\ UNCHANGED <<call, args, ret, agent, deals_board_id, wo_board_id, deals_df, workorders_df,
                   caveats, analytics_cache, analytics_context_str,
                   last_refresh>>

SvcNext ==
    \/ lifespan_construct
    \/ \E h \in RequestHandlers : Arrive(h)
    \/ \E h \in RefreshHandlers : refresh_start(h)
    \/ \E h \in RefreshExecutors : refresh_fetch_deals(h)
    \/ \E h \in RefreshExecutors : refresh_fetch_workorders(h)
    \/ \E h \in RefreshExecutors : refresh_compute(h)
    \/ \E h \in Readers : answer_static(h)
    \/ \E h \in Readers : answer_start(h)
    \/ \E h \in Readers : answer_llm(h)
    \/ \E h \in Readers : get_status(h)

vars == <<svars, cvars>>

Init == SvcInit /\ NoCall

Next == SvcNext

Spec == Init /\ [][Next]_vars

\* ------------------------------------------------------------------------
\* Claims about the service
\* ------------------------------------------------------------------------

\* the record sets the agent holds, as a pair
Held == <<deals_df, workorders_df>>

\* C1 (as claimed): once no refresh_data is executing, an agent that holds a
\* record set holds caveats, an analytics cache and a context string that
\* were all computed from exactly the record sets it holds.
C1_DerivedFromHeld ==
    (InRefresh = {} /\ (deals_df # NoneVal \/ workorders_df # NoneVal))
        => /\ caveats.src = Held
           /\ analytics_cache.src = Held
           /\ analytics_cache.caveats = caveats
           /\ analytics_context_str.src = Held

\* the fields a reader has read so far are the ones the agent holds now
Matches(o, f) ==
    /\ "deals" \in o.read => o.deals = f.deals
    /\ "wo" \in o.read => o.wo = f.wo
    /\ "caveats" \in o.read => o.caveats = f.caveats
    /\ "ctx" \in o.read => o.ctx = f.ctx
    /\ "last_refresh" \in o.read => o.last_refresh = f.last_refresh

\* C2: a reader that answers from agent fields reads all of them from one
\* state of the agent in which no refresh_data is part-way through: at the
\* step that produces its response no refresh is executing and everything it
\* read earlier is still what the agent holds.
C2_ReadersSeeOneSnapshot ==
    [][\A r \in Readers :
          (pc[r] # "responded" /\ pc'[r] = "responded")
              => (InRefresh = {} /\ Matches(obs[r], AgentFields))]_vars

\* C2 witness: a leadership answer is under way with the record sets read,
\* while a /refresh request has arrived and waits
C2_Witness ==
    /\ pc[Reader] = "llm_leadership"
    /\ obs[Reader].deals \in Data
    /\ \E h \in RefreshHandlers : pc[h] = "pending"

\* C3: at most one execution of refresh_data is in progress at any time.
C3_OneRefreshAtATime == Cardinality(InRefresh) <= 1

\* C3 witness: a refresh is executing while another /refresh request waits
C3_Witness ==
    \E h1 \in RefreshHandlers, h2 \in RefreshHandlers :
        /\ h1 # h2
        /\ pc[h1] = "fetch_wo"
        /\ pc[h2] = "pending"

\* ========================================================================
\* data_cleaner.py
\* ========================================================================

\* ------------------------------------------------------------------------
\* Python str operations used by the cleaner, on TLA+ strings
\* ------------------------------------------------------------------------

\* s[i-1:j] with out-of-range bounds clipped, as Python slices are
Slice(s, i, j) ==
    LET lo == IF i < 1 THEN 1 ELSE i
        hi == IF j > Len(s) THEN Len(s) ELSE j
    IN IF lo > hi THEN "" ELSE SubSeq(s, lo, hi)

Ch(s, i) == Slice(s, i, i)

UpperLetters == "ABCDEFGHIJKLMNOPQRSTUVWXYZ"
LowerLetters == "abcdefghijklmnopqrstuvwxyz"
Digits == "0123456789"

\* 0 when c does not occur in alphabet
IndexIn(alphabet, c) ==
    IF \E i \in 1..Len(alphabet) : Ch(alphabet, i) = c
    THEN CHOOSE i \in 1..Len(alphabet) : Ch(alphabet, i) = c
    ELSE 0

\* the lower-case letter of every upper-case letter
LowerOf ==
    [c \in {Ch(UpperLetters, i) : i \in 1..Len(UpperLetters)} |->
        Ch(LowerLetters, IndexIn(UpperLetters, c))]

LowerChar(c) == IF c \in DOMAIN LowerOf THEN LowerOf[c] ELSE c

\* the value of every decimal digit
DigitOf == [c \in {Ch(Digits, i) : i \in 1..Len(Digits)} |-> IndexIn(Digits, c) - 1]

\* str.lower()
RECURSIVE Lower(_)
Lower(s) ==
    IF Len(s) <= 1 THEN LowerChar(s)
    ELSE Lower(Slice(s, 1, Len(s) \div 2)) \o Lower(Slice(s, Len(s) \div 2 + 1, Len(s)))

IsSpace(c) == c \in {" ", "\t", "\n", "\r"}

RECURSIVE LStrip(_)
LStrip(s) ==
    IF s # "" /\ IsSpace(Ch(s, 1)) THEN LStrip(Slice(s, 2, Len(s))) ELSE s

RECURSIVE RStrip(_)
RStrip(s) ==
    IF s # "" /\ IsSpace(Ch(s, Len(s))) THEN RStrip(Slice(s, 1, Len(s) - 1)) ELSE s

\* str.strip()
Strip(s) == RStrip(LStrip(s))

\* p in s
Contains(s, p) ==
    \E i \in 0..(Len(s) - Len(p)) : Slice(s, i + 1, i + Len(p)) = p

StartsWith(s, p) == Len(p) <= Len(s) /\ Slice(s, 1, Len(p)) = p

EndsWith(s, p) == Len(p) <= Len(s) /\ Slice(s, Len(s) - Len(p) + 1, Len(s)) = p

\* ------------------------------------------------------------------------
\* normalize_text and the category canonicalizers
\* ------------------------------------------------------------------------

\* normalize_text: "" for a falsy value, else strip then lower
normalize_text(value) == IF value = "" THEN "" ELSE Lower(Strip(value))

DEAD_STAGES == {"n. not relevant at the moment", "o. not relevant at all",
                "l. project lost", "m. projects on hold"}
WON_STAGES == {"h. work order received", "project completed", "k. amount accrued",
               "g. project won", "j. invoice sent", "i. poc"}
OPEN_STAGES == {"a. lead generated", "b. sales qualified leads", "c. demo done",
                "d. feasibility", "e. proposal/commercials sent", "f. negotiations"}

\* mutant: the stage sets are consulted before the explicit status
map_deal_status_stage_first(status, stage) ==
    LET s == normalize_text(status)
        st == normalize_text(stage)
    IN IF st \in WON_STAGES THEN "Won"
       ELSE IF st \in DEAD_STAGES THEN "Dead"
       ELSE IF s = "won" THEN "Won"
       ELSE IF s = "dead" THEN "Dead"
       ELSE IF s = "on hold" THEN "On Hold"
       ELSE "Open"

map_deal_status(status, stage) ==
    LET s == normalize_text(status)
        st == normalize_text(stage)
    IN IF s = "won" THEN "Won"
       ELSE IF s = "dead" THEN "Dead"
       ELSE IF s = "on hold" THEN "On Hold"
       ELSE IF st \in WON_STAGES THEN "Won"
       ELSE IF st \in DEAD_STAGES THEN "Dead"
       ELSE IF st \in OPEN_STAGES THEN "Open"
       ELSE "Open"

\* clean_workorders_df, the if/elif chain over the normalized execution status
exec_status_clean_of(exec_status) ==
    IF Contains(exec_status, "completed") THEN "Completed"
    ELSE IF Contains(exec_status, "ongoing") \/ Contains(exec_status, "executed until")
    THEN "Ongoing"
    ELSE IF Contains(exec_status, "not started") THEN "Not Started"
    ELSE IF Contains(exec_status, "pause") \/ Contains(exec_status, "struck")
    THEN "Paused"
    ELSE IF Contains(exec_status, "partial") THEN "Partially Completed"
    ELSE IF Contains(exec_status, "pending") \/ Contains(exec_status, "details pending")
    THEN "Pending"
    ELSE "Unknown"

ACTIVE_STATUSES == {"Ongoing", "Not Started", "Paused", "Partially Completed", "Pending"}

\* mutant: Paused left out of the active statuses
is_active_of_no_paused(exec_status_clean) ==
    exec_status_clean \in (ACTIVE_STATUSES \ {"Paused"})

is_active_of(exec_status_clean) == exec_status_clean \in ACTIVE_STATUSES

\* ------------------------------------------------------------------------
\* Python floats.  A finite float is kept as an integer number of tenths
\* (the bounded inputs carry at most one decimal); nan and the infinities
\* are kept apart, with the IEEE rules Python applies to them.
\* ------------------------------------------------------------------------

Fin(v) == [k |-> "fin", v |-> v]
NaN == [k |-> "nan", v |-> 0]
Inf(sign) == [k |-> "inf", v |-> sign]

Sign(n) == IF n > 0 THEN 1 ELSE IF n < 0 THEN 0 - 1 ELSE 0

\* a == b on floats: nan equals nothing
FEq(a, b) == a.k # "nan" /\ b.k # "nan" /\ a = b

\* a > b on floats
FGt(a, b) ==
    CASE a.k = "nan" \/ b.k = "nan" -> FALSE
      [] a.k = "inf" /\ b.k = "inf" -> a.v > b.v
      [] a.k = "inf" -> a.v > 0
      [] b.k = "inf" -> b.v < 0
      [] OTHER -> a.v > b.v

\* a >= b on floats
FGe(a, b) == FGt(a, b) \/ FEq(a, b)

\* a - b on floats of the same scale
FSub(a, b) ==
    CASE a.k = "nan" \/ b.k = "nan" -> NaN
      [] a.k = "inf" /\ b.k = "inf" -> IF a.v = b.v THEN NaN ELSE a
      [] a.k = "inf" -> a
      [] b.k = "inf" -> Inf(0 - b.v)
      [] OTHER -> Fin(a.v - b.v)

\* a * m for a finite factor m given as a plain integer (the result keeps
\* a's scale) or as an integer number of hundredths (the result is then in
\* thousandths)
FMul(a, m) ==
    CASE a.k = "nan" -> NaN
      [] a.k = "inf" -> IF m = 0 THEN NaN ELSE Inf(a.v * Sign(m))
      [] OTHER -> Fin(a.v * m)

\* bool(x) for a float: x != 0.0
Truthy(a) == ~FEq(a, Fin(0))

\* Python max(0.0, x): x when x > 0.0, else the first argument
PyMax0(x) == IF FGt(x, Fin(0)) THEN x ELSE Fin(0)

IsDigits(s) == s # "" /\ \A i \in 1..Len(s) : Ch(s, i) \in DOMAIN DigitOf

RECURSIVE DigitsValue(_)
DigitsValue(s) ==
    IF s = "" THEN 0
    ELSE 10 * DigitsValue(Slice(s, 1, Len(s) - 1)) + DigitOf[Ch(s, Len(s))]

\* position of the first c in s, 0 when absent
FirstIndex(s, c) ==
    IF \E i \in 1..Len(s) : Ch(s, i) = c
    THEN CHOOSE i \in 1..Len(s) : Ch(s, i) = c /\ \A j \in 1..(i - 1) : Ch(s, j) # c
    ELSE 0

ParseFailure == [ok |-> FALSE, val |-> Fin(0)]
Parsed(x) == [ok |-> TRUE, val |-> x]

\* tenths of the decimal literal int_part "." frac_part
DecimalValue(int_part, frac_part) ==
    10 * DigitsValue(int_part) + DigitsValue(Slice(frac_part, 1, 1))

\* float(text) for text without surrounding whitespace: an optional sign,
\* then nan / inf / infinity in any case, or a decimal literal.  ok is FALSE
\* where float raises ValueError.  (Exponents and digit-group underscores do
\* not occur in the bounded inputs.)
float_parts(sgn, int_part, frac_part) ==
    IF /\ int_part # "" \/ frac_part # ""
       /\ int_part = "" \/ IsDigits(int_part)
       /\ frac_part = "" \/ IsDigits(frac_part)
    THEN Parsed(Fin(sgn * DecimalValue(int_part, frac_part)))
    ELSE ParseFailure

float_decimal(sgn, body, dot) ==
    IF dot = 0 THEN ParseFailure
    ELSE float_parts(sgn, Slice(body, 1, dot - 1), Slice(body, dot + 1, Len(body)))

float_word(sgn, body, low) ==
    CASE low = "nan" -> Parsed(NaN)
      [] low \in {"inf", "infinity"} -> Parsed(Inf(sgn))
      [] IsDigits(body) -> Parsed(Fin(sgn * 10 * DigitsValue(body)))
      [] OTHER -> float_decimal(sgn, body, FirstIndex(body, "."))

float_unsigned(sgn, body) == float_word(sgn, body, Lower(body))

py_float(text) ==
    IF StartsWith(text, "-") THEN float_unsigned(0 - 1, Slice(text, 2, Len(text)))
    ELSE IF StartsWith(text, "+") THEN float_unsigned(1, Slice(text, 2, Len(text)))
    ELSE float_unsigned(1, text)

\* ------------------------------------------------------------------------
\* normalize_revenue
\* ------------------------------------------------------------------------

\* json.loads on a flat JSON object: members "key": value whose values are
\* strings without escapes, decimal numbers, null, true or false.  The result
\* is [ok, members]; a member is [key, kind, str] with str the Python str()
\* of the value.  ok is FALSE where json.loads raises (and for nested
\* values, which the bounded inputs do not contain).
JsonFailure == [ok |-> FALSE, members |-> <<>>]

\* a parsed value: [ok, kind, str, rest], rest being the text that follows
JsonBad == [ok |-> FALSE, kind |-> "", str |-> "", rest |-> ""]
JsonOk(kind, str, rest) == [ok |-> TRUE, kind |-> kind, str |-> str, rest |-> rest]

\* the string literal at the head of s whose closing quote is close places
\* after the opening one (0: there is none)
JsonString(s, close) ==
    IF close = 0 \/ Contains(Slice(s, 2, close), "\\") THEN JsonBad
    ELSE JsonOk("str", Slice(s, 2, close), LStrip(Slice(s, close + 2, Len(s))))

\* a JSON number has a digit at both ends and no leading zero before a digit
JsonNumberShape(unsigned) ==
    /\ IsDigits(Slice(unsigned, 1, 1))
    /\ IsDigits(Slice(unsigned, Len(unsigned), Len(unsigned)))
    /\ ~(StartsWith(unsigned, "0") /\ IsDigits(Slice(unsigned, 2, 2)))

JsonNumber(token) ==
    /\ JsonNumberShape(IF StartsWith(token, "-") THEN Slice(token, 2, Len(token))
                       ELSE token)
    /\ py_float(token).ok

JsonScalar(token, after) ==
    CASE token = "null" -> JsonOk("null", "None", after)
      [] token = "true" -> JsonOk("bool", "True", after)
      [] token = "false" -> JsonOk("bool", "False", after)
      [] OTHER -> IF JsonNumber(token) THEN JsonOk("num", token, after) ELSE JsonBad

\* the token runs to the first "," or "}" (stop; 0: to the end of s)
JsonToken(s, stop) ==
    IF stop = 0 THEN JsonScalar(Strip(s), "")
    ELSE JsonScalar(Strip(Slice(s, 1, stop - 1)), Slice(s, stop, Len(s)))

FirstStop(c, b) == IF c = 0 THEN b ELSE IF b = 0 THEN c ELSE IF c < b THEN c ELSE b

\* the value at the head of s
JsonValue(s) ==
    IF StartsWith(s, "\"") THEN JsonString(s, FirstIndex(Slice(s, 2, Len(s)), "\""))
    ELSE JsonToken(s, FirstStop(FirstIndex(s, ","), FirstIndex(s, "}")))

\* the members at the head of s, the text after the opening brace
RECURSIVE JsonMembers(_)

JsonPrepend(member, more) ==
    IF more.ok THEN [ok |-> TRUE, members |-> <<member>> \o more.members]
    ELSE JsonFailure

JsonAfterValue(key, v) ==
    IF ~v.ok THEN JsonFailure
    ELSE IF v.rest = "}"
    THEN [ok |-> TRUE, members |-> <<[key |-> key, kind |-> v.kind, str |-> v.str]>>]
    ELSE IF StartsWith(v.rest, ",")
    THEN JsonPrepend([key |-> key, kind |-> v.kind, str |-> v.str],
                     JsonMembers(LStrip(Slice(v.rest, 2, Len(v.rest)))))
    ELSE JsonFailure

JsonAfterKey(key, after_key) ==
    IF key.ok /\ StartsWith(after_key, ":")
    THEN JsonAfterValue(key.str, JsonValue(LStrip(Slice(after_key, 2, Len(after_key)))))
    ELSE JsonFailure

JsonMember(key) == JsonAfterKey(key, key.rest)

JsonMembers(s) ==
    IF StartsWith(s, "\"")
    THEN JsonMember(JsonString(s, FirstIndex(Slice(s, 2, Len(s)), "\"")))
    ELSE JsonFailure

JsonObject(inner) ==
    IF inner = "}" THEN [ok |-> TRUE, members |-> <<>>] ELSE JsonMembers(inner)

json_loads_object(text) ==
    IF StartsWith(text, "{") THEN JsonObject(LStrip(Slice(text, 2, Len(text))))
    ELSE JsonFailure

HasKey(obj, key) == \E i \in 1..Len(obj.members) : obj.members[i].key = key

\* dict[key]: with a repeated key the last member wins
Member(obj, key) ==
    obj.members[CHOOSE i \in 1..Len(obj.members) :
                    /\ obj.members[i].key = key
                    /\ \A j \in (i + 1)..Len(obj.members) : obj.members[j].key # key]

\* str(parsed.get("value", parsed.get("text", "")))
value_or_text(obj) ==
    IF HasKey(obj, "value") THEN Member(obj, "value").str
    ELSE IF HasKey(obj, "text") THEN Member(obj, "text").str
    ELSE ""

\* the match of (rs\.?|inr|usd|eur|£|€|\$|₹), case-insensitive, at the head
\* of t: its length, 0 for no match
CurrencyMatchLen(t) ==
    LET l == Lower(Slice(t, 1, 3))
    IN CASE StartsWith(l, "rs.") -> 3
         [] StartsWith(l, "rs") -> 2
         [] l \in {"inr", "usd", "eur"} -> 3
         [] t # "" /\ Ch(t, 1) \in {"£", "€", "$", "₹"} -> 1
         [] OTHER -> 0

\* re.sub(r"(?i)(rs\.?|inr|usd|eur|£|€|\$|₹)", "", text)
RECURSIVE StripCurrency(_)
StripCurrency(t) ==
    IF t = "" THEN ""
    ELSE IF CurrencyMatchLen(t) > 0
    THEN StripCurrency(Slice(t, CurrencyMatchLen(t) + 1, Len(t)))
    ELSE Ch(t, 1) \o StripCurrency(Slice(t, 2, Len(t)))

\* re.sub(r"[,\s]", "", text)
RECURSIVE StripSeparators(_)
StripSeparators(t) ==
    IF t = "" THEN ""
    ELSE IF Ch(t, 1) = "," \/ IsSpace(Ch(t, 1))
    THEN StripSeparators(Slice(t, 2, Len(t)))
    ELSE Ch(t, 1) \o StripSeparators(Slice(t, 2, Len(t)))

CRORE == 10000000
LAKH == 100000
THOUSAND == 1000

\* float(text) * multiplier, 0.0 on ValueError
float_times(f, multiplier) == IF f.ok THEN FMul(f.val, multiplier) ELSE Fin(0)

\* the suffix is looked for in text.lower() and cut from text
revenue_of_suffixed(text, low) ==
    CASE EndsWith(low, "cr") ->
            float_times(py_float(Slice(text, 1, Len(text) - 2)), CRORE)
      [] EndsWith(low, "l") ->
            float_times(py_float(Slice(text, 1, Len(text) - 1)), LAKH)
      [] EndsWith(low, "k") ->
            float_times(py_float(Slice(text, 1, Len(text) - 1)), THOUSAND)
      [] OTHER -> float_times(py_float(text), 1)

revenue_of_cleaned(text) == revenue_of_suffixed(text, Lower(text))

\* text after the currency symbols, commas and whitespace are removed
revenue_of_text(text) == revenue_of_cleaned(StripSeparators(StripCurrency(text)))

\* a JSON object is replaced by its "value" (else "text") member; text that
\* json.loads rejects is kept as it is
revenue_of_json(text, obj) == revenue_of_text(IF obj.ok THEN value_or_text(obj) ELSE text)

revenue_of_stripped(text) ==
    IF StartsWith(text, "{") THEN revenue_of_json(text, json_loads_object(text))
    ELSE revenue_of_text(text)

\* normalize_revenue on a str cell (every cell of a flattened item is a str)
normalize_revenue(value) ==
    IF value = "" THEN Fin(0) ELSE revenue_of_stripped(Strip(value))

\* ---------------------------------------------------------------------
\* normalize_date: datetime.strptime over the eight FORMATS, in order.
\* A calendar date is the integer yyyymmdd.
\* ---------------------------------------------------------------------

\* the pieces of s between occurrences of the one-character separator c
RECURSIVE Split(_, _)
Split(s, c) ==
    LET i == FirstIndex(s, c)
    IN IF i = 0 THEN <<s>>
       ELSE <<Slice(s, 1, i - 1)>> \o Split(Slice(s, i + 1, Len(s)), c)

\* the pieces of s between runs of whitespace (the format's " " is \s+)
RECURSIVE Words(_)
Words(s) ==
    LET t == LStrip(s)
        ends == {i \in 1..Len(t) : IsSpace(Ch(t, i))}
        stop == IF ends = {} THEN Len(t) + 1
                ELSE CHOOSE i \in ends : \A j \in ends : i <= j
    IN IF t = "" THEN <<>>
       ELSE <<Slice(t, 1, stop - 1)>> \o Words(Slice(t, stop, Len(t)))

\* %Y is exactly four digits; year 0 is below datetime.MINYEAR
directive_Y(token) ==
    IF Len(token) = 4 /\ IsDigits(token) /\ DigitsValue(token) >= 1
    THEN DigitsValue(token) ELSE 0

\* %m is 1[0-2]|0[1-9]|[1-9]
directive_m(token) ==
    IF Len(token) \in {1, 2} /\ IsDigits(token) /\ DigitsValue(token) \in 1..12
    THEN DigitsValue(token) ELSE 0

\* %d is 3[01]|[12]\d|0[1-9]|[1-9]| [1-9]
directive_d(token) ==
    LET digits == IF Len(token) = 2 /\ Ch(token, 1) = " " THEN Ch(token, 2) ELSE token
    IN IF Len(token) \in {1, 2} /\ IsDigits(digits) /\ DigitsValue(digits) \in 1..31
       THEN DigitsValue(digits) ELSE 0

MonthNames ==
    <<"january", "february", "march", "april", "may", "june", "july",
      "august", "september", "october", "november", "december">>

\* %B, matched without regard to case
directive_B(token) ==
    IF \E m \in 1..12 : MonthNames[m] = Lower(token)
    THEN CHOOSE m \in 1..12 : MonthNames[m] = Lower(token) ELSE 0

\* %b: the first three letters of the month's name
directive_b(token) ==
    IF \E m \in 1..12 : Slice(MonthNames[m], 1, 3) = Lower(token)
    THEN CHOOSE m \in 1..12 : Slice(MonthNames[m], 1, 3) = Lower(token) ELSE 0

IsLeap(y) == (y % 4 = 0 /\ y % 100 # 0) \/ y % 400 = 0

DaysInMonth(y, m) ==
    IF m = 2 THEN (IF IsLeap(y) THEN 29 ELSE 28)
    ELSE IF m \in {4, 6, 9, 11} THEN 30 ELSE 31

NoDate == 0

\* datetime(y, m, d), NoDate where a directive did not match or the day is
\* out of range for the month (ValueError)
MakeDate(y, m, d) ==
    IF y = 0 \/ m = 0 \/ d = 0 THEN NoDate
    ELSE IF d > DaysInMonth(y, m) THEN NoDate
    ELSE y * 10000 + m * 100 + d

\* the three numeric fields of parts, taken at the given places
NumericDate(parts, y, m, d) ==
    IF Len(parts) # 3 THEN NoDate
    ELSE MakeDate(directive_Y(parts[y]), directive_m(parts[m]), directive_d(parts[d]))

\* day, month name and year as the three words of "%d %b %Y" or "%d %B %Y"
NamedDate(words, month) ==
    IF Len(words) # 3 THEN NoDate
    ELSE MakeDate(directive_Y(words[3]), month, directive_d(words[1]))

\* "%B %d, %Y": the day is followed at once by the comma
CommaDate(words) ==
    IF Len(words) # 3 THEN NoDate
    ELSE IF ~EndsWith(words[2], ",") THEN NoDate
    ELSE MakeDate(directive_Y(words[3]), directive_B(words[1]),
                  directive_d(Slice(words[2], 1, Len(words[2]) - 1)))

Second(words) == IF Len(words) >= 2 THEN words[2] ELSE ""

\* strptime(text, fmt) for one of the FORMATS, NoDate on ValueError
strptime(text, fmt) ==
    CASE fmt = "%Y-%m-%d" -> NumericDate(Split(text, "-"), 1, 2, 3)
      [] fmt = "%d/%m/%Y" -> NumericDate(Split(text, "/"), 3, 2, 1)
      [] fmt = "%m/%d/%Y" -> NumericDate(Split(text, "/"), 3, 1, 2)
      [] fmt = "%d-%m-%Y" -> NumericDate(Split(text, "-"), 3, 2, 1)
      [] fmt = "%d %b %Y" -> NamedDate(Words(text), directive_b(Second(Words(text))))
      [] fmt = "%B %d, %Y" -> CommaDate(Words(text))
      [] fmt = "%d %B %Y" -> NamedDate(Words(text), directive_B(Second(Words(text))))
      [] fmt = "%Y/%m/%d" -> NumericDate(Split(text, "/"), 1, 2, 3)

FORMATS ==
    <<"%Y-%m-%d", "%d/%m/%Y", "%m/%d/%Y", "%d-%m-%Y",
      "%d %b %Y", "%B %d, %Y", "%d %B %Y", "%Y/%m/%d">>

\* the loop over FORMATS from the i-th on: the first date that parses
RECURSIVE TryFormats(_, _)

ParsedOrNext(date, text, i) == IF date # NoDate THEN date ELSE TryFormats(text, i + 1)

TryFormats(text, i) ==
    IF i > Len(FORMATS) THEN NoDate
    ELSE ParsedOrNext(strptime(text, FORMATS[i]), text, i)

DigitText(n) == Slice(Digits, n + 1, n + 1)

\* str(n) for an integer n >= 0
RECURSIVE IntText(_)
IntText(n) == IF n < 10 THEN DigitText(n) ELSE IntText(n \div 10) \o DigitText(n % 10)

\* n in decimal, zero-padded to width places
RECURSIVE Padded(_, _)
Padded(n, width) ==
    IF width = 0 THEN "" ELSE Padded(n \div 10, width - 1) \o DigitText(n % 10)

\* strftime("%Y-%m-%d")
strftime(date) ==
    Padded(date \div 10000, 4) \o "-" \o Padded((date \div 100) % 100, 2)
        \o "-" \o Padded(date % 100, 2)

\* outcomes of normalize_date: None, an ISO string, or the TypeError that
\* strptime raises when the JSON "date" member is a non-zero number or true
DateNone == [k |-> "None", s |-> ""]
DateStr(s) == [k |-> "str", s |-> s]
DateTypeError == [k |-> "TypeError", s |-> ""]

\* `not text` for the "date" member m
FalsyMember(m) ==
    \/ m.kind = "null"
    \/ m.kind = "str" /\ m.str = ""
    \/ m.kind = "bool" /\ m.str = "False"
    \/ m.kind = "num" /\ py_float(m.str).val = Fin(0)

\* text = parsed.get("date", ""): None when falsy; a member that is not a
\* str reaches strptime, which raises TypeError
DateMember(m) ==
    IF FalsyMember(m) THEN DateNone
    ELSE IF m.kind # "str" THEN DateTypeError
    ELSE DateStr(m.str)

\* the text handed to strptime; text that json.loads rejects is kept
DateTextOfJson(text, obj) ==
    IF ~obj.ok THEN DateStr(text)
    ELSE IF ~HasKey(obj, "date") THEN DateNone
    ELSE DateMember(Member(obj, "date"))

DateText(text) ==
    IF StartsWith(text, "{") THEN DateTextOfJson(text, json_loads_object(text))
    ELSE DateStr(text)

IsoOrNone(date) == IF date = NoDate THEN DateNone ELSE DateStr(strftime(date))

ParseDateText(t) == IF t.k # "str" THEN t ELSE IsoOrNone(TryFormats(t.s, 1))

normalize_date(value) ==
    IF value = "" THEN DateNone ELSE ParseDateText(DateText(Strip(value)))

\* pd.Timestamp.min and pd.Timestamp.max fall within these days
TIMESTAMP_MIN == 16770922
TIMESTAMP_MAX == 22620411

NaT == 0

InBounds(date) == IF date < TIMESTAMP_MIN \/ date > TIMESTAMP_MAX THEN NaT ELSE date

\* pd.to_datetime(column, errors="coerce") on one cell of ISO strings and
\* None: the Timestamp's date, NaT for None and for a date out of bounds
to_datetime(cell) ==
    IF cell.k # "str" THEN NaT ELSE InBounds(NumericDate(Split(cell.s, "-"), 1, 2, 3))

\* ---------------------------------------------------------------------
\* Column resolution and the board pipelines.  An item is the flattened
\* dict of MondayClient.fetch_all_items: "_item_name" and one str cell per
\* column id.  schema["columns"] is kept as the sequence of its entries in
\* insertion order, each [id, title].
\* ---------------------------------------------------------------------

\* item.get(col_id, "")
Get(item, col_id) == IF col_id \in DOMAIN item THEN item[col_id] ELSE ""

\* a keyword-major search: the first keyword that some title contains picks
\* the column (not the code's loop order)
find_column_keyword_first(item, schema_columns, keywords) ==
    LET kw_lower == [k \in 1..Len(keywords) |-> Lower(keywords[k])]
        titles == [i \in 1..Len(schema_columns) |-> Lower(schema_columns[i].title)]
        found(k) == {i \in 1..Len(titles) : Contains(titles[i], kw_lower[k])}
        ks == {k \in 1..Len(kw_lower) : found(k) # {}}
    IN IF ks = {} THEN ""
       ELSE Get(item, schema_columns[
                CHOOSE i \in found(CHOOSE k \in ks : \A m \in ks : k <= m) :
                    \A j \in found(CHOOSE k \in ks : \A m \in ks : k <= m) : i <= j].id)

\* find_column: the cell under the first column, in schema order, whose
\* lowercased title contains one of the lowercased keywords
find_column(item, schema_columns, keywords) ==
    LET kw_lower == [k \in 1..Len(keywords) |-> Lower(keywords[k])]
        matches(title) == \E k \in 1..Len(kw_lower) : Contains(title, kw_lower[k])
        hits == {i \in 1..Len(schema_columns) : matches(Lower(schema_columns[i].title))}
    IN IF hits = {} THEN ""
       ELSE Get(item, schema_columns[CHOOSE i \in hits : \A j \in hits : i <= j].id)

\* PROBABILITY_MAP.get(key, 0.0), in hundredths
PROBABILITY_MAP(key) ==
    CASE key = "high" -> 80
      [] key = "medium" -> 50
      [] key = "low" -> 25
      [] OTHER -> 0

\* a or b on the outcomes of normalize_date; a TypeError in a propagates
DateOr(a, b) == IF a.k = "None" THEN b ELSE a

\* x or "unknown"
OrUnknown(x) == IF x = "" THEN "unknown" ELSE x

\* clean_deals_df skips a row whose stripped name is empty or "deal name"
SkippedDealName(name) == name = "" \/ Lower(name) \in {"deal name", ""}

deal_skipped(item) == SkippedDealName(Strip(Get(item, "_item_name")))

\* the dict appended for one deals item, given its revenue and probability.
\* deal_value is in tenths, probability in hundredths and weighted_value in
\* thousandths.
deal_fields(item, cols, revenue, probability) ==
    [deal_name |-> Strip(Get(item, "_item_name")),
     owner_code |-> Strip(find_column(item, cols, <<"owner", "personnel">>)),
     client_code |-> Strip(find_column(item, cols, <<"client", "company">>)),
     status |-> map_deal_status(find_column(item, cols, <<"status", "deal status">>),
                                find_column(item, cols, <<"stage", "deal stage">>)),
     stage |-> normalize_text(find_column(item, cols, <<"stage", "deal stage">>)),
     sector |-> OrUnknown(normalize_text(find_column(item, cols, <<"sector", "service">>))),
     deal_value |-> revenue,
     probability |-> probability,
     weighted_value |-> FMul(revenue, probability),
     close_date |->
        DateOr(normalize_date(find_column(item, cols,
                   <<"close date", "actual close", "close date (a)">>)),
               normalize_date(find_column(item, cols, <<"tentative", "expected close">>))),
     created_date |-> normalize_date(find_column(item, cols, <<"created", "creation">>)),
     product |-> Strip(find_column(item, cols, <<"product">>))]

deal_record(item, cols) ==
    deal_fields(item, cols,
        normalize_revenue(find_column(item, cols, <<"value", "deal value", "masked">>)),
        PROBABILITY_MAP(normalize_text(find_column(item, cols, <<"probability", "closure">>))))

\* the rows of a batch that a pipeline keeps, in input order
RECURSIVE Kept(_, _)
Kept(raw_items, board) ==
    IF raw_items = <<>> THEN <<>>
    ELSE IF (IF board = "deals" THEN deal_skipped(Head(raw_items))
             ELSE Strip(Get(Head(raw_items), "_item_name")) = "")
    THEN Kept(Tail(raw_items), board)
    ELSE <<Head(raw_items)>> \o Kept(Tail(raw_items), board)

Returned(value) == [done |-> TRUE, raised |-> FALSE, value |-> value]
Raised == [done |-> TRUE, raised |-> TRUE, value |-> <<>>]

deal_records(kept, cols) == [k \in 1..Len(kept) |-> deal_record(kept[k], cols)]

\* pd.DataFrame(records) with close_date and created_date run through
\* pd.to_datetime, unless building a record raised
deals_frame(records) ==
    IF \E k \in 1..Len(records) :
          "TypeError" \in {records[k].close_date.k, records[k].created_date.k}
    THEN Raised
    ELSE Returned([k \in 1..Len(records) |->
             [records[k] EXCEPT !.close_date = to_datetime(@),
                                !.created_date = to_datetime(@)]])

\* clean_deals_df: the records of the frame it returns, or the TypeError
\* that normalize_date lets through
clean_deals_df(raw_items, schema) ==
    deals_frame(deal_records(Kept(raw_items, "deals"), schema.columns))

\* mutant: the difference is stored without the clamp at zero
unbilled_amount_of_unclamped(amount, billed) == FSub(amount, billed)

\* max(0.0, amount - billed)
unbilled_amount_of(amount, billed) == PyMax0(FSub(amount, billed))

\* normalize_revenue(amount_excl_raw) or normalize_revenue(amount_incl_raw)
amount_of(excl, amount_incl_raw) ==
    IF Truthy(excl) THEN excl ELSE normalize_revenue(amount_incl_raw)

\* str(deal_name_raw).strip() if deal_name_raw else name
deal_name_linked_of(deal_name_raw, name) ==
    IF deal_name_raw # "" THEN Strip(deal_name_raw) ELSE name

\* the dict appended for one work-orders item, given its amounts (in
\* tenths) and its canonical execution status
wo_fields(item, cols, amount, billed, exec_status_clean) ==
    [wo_name |-> Strip(Get(item, "_item_name")),
     deal_name_linked |-> deal_name_linked_of(find_column(item, cols, <<"deal name", "deal">>),
                                              Strip(Get(item, "_item_name"))),
     sector |-> OrUnknown(normalize_text(find_column(item, cols, <<"sector">>))),
     exec_status |-> exec_status_clean,
     is_active |-> is_active_of(exec_status_clean),
     amount_excl_gst |-> amount,
     billed_excl_gst |-> billed,
     unbilled_amount |-> unbilled_amount_of(amount, billed),
     wo_status |-> normalize_text(find_column(item, cols,
                       <<"wo status", "billing status", "collection status">>)),
     nature_of_work |-> Strip(find_column(item, cols, <<"nature of work", "nature">>)),
     owner_code |-> Strip(find_column(item, cols, <<"bd/kam", "owner", "personnel">>)),
     start_date |-> normalize_date(find_column(item, cols,
                        <<"probable start", "start date", "date of po">>)),
     end_date |-> normalize_date(find_column(item, cols,
                      <<"probable end", "end date", "delivery date">>))]

EXEC_STATUS_KEYWORDS == <<"execution status", "exec status", "status">>

wo_record(item, cols) ==
    wo_fields(item, cols,
        amount_of(normalize_revenue(find_column(item, cols,
                      <<"amount in rupees (excl", "excl of gst", "excl. of gst">>)),
                  find_column(item, cols, <<"amount in rupees (incl", "incl of gst">>)),
        normalize_revenue(find_column(item, cols,
            <<"billed value in rupees (excl", "billed value">>)),
        exec_status_clean_of(normalize_text(find_column(item, cols, EXEC_STATUS_KEYWORDS))))

wo_records(kept, cols) == [k \in 1..Len(kept) |-> wo_record(kept[k], cols)]

\* pd.DataFrame(records) with start_date and end_date run through
\* pd.to_datetime, unless building a record raised
workorders_frame(records) ==
    IF \E k \in 1..Len(records) :
          "TypeError" \in {records[k].start_date.k, records[k].end_date.k}
    THEN Raised
    ELSE Returned([k \in 1..Len(records) |->
             [records[k] EXCEPT !.start_date = to_datetime(@),
                                !.end_date = to_datetime(@)]])

\* clean_workorders_df: the records of the frame it returns, or the
\* TypeError that normalize_date lets through
clean_workorders_df(raw_items, schema) ==
    workorders_frame(wo_records(Kept(raw_items, "workorders"), schema.columns))

\* ---------------------------------------------------------------------
\* Calls into data_cleaner: the arguments are drawn once, then the function
\* runs to its return (or to the exception it lets through).
\* ---------------------------------------------------------------------

DEALS_SCHEMA ==
    [columns |-> <<[id |-> "status", title |-> "Deal Status"],
                   [id |-> "stage", title |-> "Deal Stage"],
                   [id |-> "value", title |-> "Masked Deal value"],
                   [id |-> "prob", title |-> "Closure Probability"],
                   [id |-> "close", title |-> "Close Date (A)"],
                   [id |-> "tentative", title |-> "Tentative Close Date"],
                   [id |-> "sector", title |-> "Sector/service"],
                   [id |-> "created", title |-> "Created Date"]>>]

WORKORDERS_SCHEMA ==
    [columns |-> <<[id |-> "deal", title |-> "Deal name masked"],
                   [id |-> "exec", title |-> "Execution Status"],
                   [id |-> "excl", title |-> "Amount in Rupees (Excl of GST) (Masked)"],
                   [id |-> "incl", title |-> "Amount in Rupees (Incl of GST) (Masked)"],
                   [id |-> "billed", title |-> "Billed Value in Rupees (Excl of GST.) (Masked)"],
                   [id |-> "start", title |-> "Probable Start Date"],
                   [id |-> "end", title |-> "Probable End Date"]>>]

\* a board none of whose columns answers to a keyword
BARE_SCHEMA == [columns |-> <<[id |-> "notes", title |-> "Notes"]>>]

RawStatuses == {"Won", " dead ", "On Hold", "Open", "", "WON", "lost"}
RawStages ==
    {"G. Project Won", "L. Project Lost", "F. Negotiations", "M. Projects On Hold",
     " h. work order received ", "Z. Parked", ""}

DealNames == {"Acme", "", "Deal Name", " beta "}
RawValues == {"", "10k", "₹1,20,000", "-5000", "nan", "n/a"}
RawProbabilities == {"High", "medium", "Low", "certain"}
RawCloseDates == {"2025-12-31", "{\"date\": 5}", ""}

DealItems ==
    {[_item_name |-> n, status |-> "Open", stage |-> "F. Negotiations", value |-> v,
      prob |-> p, close |-> c, tentative |-> "15/01/2026", sector |-> " Mining",
      created |-> "{\"date\":\"2025-04-01\"}"] :
        n \in DealNames, v \in RawValues, p \in RawProbabilities, c \in RawCloseDates}

\* rows that make up the longer deals batches
DealRows ==
    {[_item_name |-> "Acme", status |-> "", stage |-> "G. Project Won", value |-> "10k",
      prob |-> "High", close |-> "31/12/2025", tentative |-> "", sector |-> "",
      created |-> ""],
     [_item_name |-> "Deal Name", status |-> "Deal Status", stage |-> "Deal Stage",
      value |-> "Masked Deal value", prob |-> "Closure Probability",
      close |-> "Close Date (A)", tentative |-> "", sector |-> "Sector/service",
      created |-> ""],
     [_item_name |-> " beta ", status |-> "Dead", stage |-> "F. Negotiations",
      value |-> "1.5L", prob |-> "low", close |-> "", tentative |-> "5 May 2026",
      sector |-> "Rail", created |-> "2025-02-30"]}

WoNames == {"WO-1", "", "Deal Name"}
RawExecStatuses ==
    {"Completed", "Ongoing", "Not Started", "Pause / struck", "Partially Completed",
     "Partial", "Details pending", "Executed until current month", ""}
RawAmounts == {"", "10k", "-5000", "nan"}
RawInclAmounts == {"", "500"}
RawBilled == {"", "2k", "1.5L", "inf"}

WoItems ==
    {[_item_name |-> n, deal |-> "Acme", exec |-> e, excl |-> a, incl |-> i,
      billed |-> b, start |-> "2025-04-01", end |-> ""] :
        n \in WoNames, e \in RawExecStatuses, a \in RawAmounts,
        i \in RawInclAmounts, b \in RawBilled}

\* rows that make up the longer work-orders batches
WoRows ==
    {[_item_name |-> "WO-1", deal |-> "Acme", exec |-> "Ongoing", excl |-> "1.5L",
      incl |-> "", billed |-> "10k", start |-> "2025-04-01", end |-> "{\"date\": 5}"],
     [_item_name |-> "Deal Name", deal |-> "Deal name masked",
      exec |-> "Execution Status", excl |-> "", incl |-> "", billed |-> "",
      start |-> "", end |-> ""],
     [_item_name |-> " WO-2 ", deal |-> "", exec |-> "Completed", excl |-> "2k",
      incl |-> "", billed |-> "2k", start |-> "", end |-> "2025-06-30"]}

\* the batches: empty, one row from the full pool, or up to MaxItems rows
Batches(items, rows) ==
    {<<>>} \cup {<<i>> : i \in items}
           \cup UNION {[1..n -> rows] : n \in 2..MaxItems}

CleanArgs(items, rows, schema) ==
    {[NoArgs EXCEPT !.raw_items = b, !.schema = schema] : b \in Batches(items, rows)}
        \cup {[NoArgs EXCEPT !.raw_items = b, !.schema = BARE_SCHEMA] :
                  b \in Batches({}, rows)}

\* the values a caller can hand to normalize_revenue: None, a str, a float,
\* an int (one too large for a float included)
PyNone == [t |-> "None", s |-> "", f |-> Fin(0)]
PyStr(s) == [t |-> "str", s |-> s, f |-> Fin(0)]
PyFloat(f) == [t |-> "float", s |-> "", f |-> f]
PyInt(f) == [t |-> "int", s |-> "", f |-> f]
PyHugeInt == [t |-> "hugeint", s |-> "", f |-> Fin(0)]

\* normalize_revenue over every kind of input: the two early returns, then
\* the text path
normalize_revenue_any(value) ==
    IF value.t = "None" \/ (value.t = "str" /\ value.s = "")
          \/ (value.t = "float" /\ value.f = NaN)
    THEN Returned(Fin(0))
    ELSE IF value.t \in {"float", "int"} THEN Returned(value.f)
    ELSE IF value.t = "hugeint" THEN Raised
    ELSE Returned(normalize_revenue(value.s))

RevenueTexts ==
    {"", "10k", "2.5Cr", "1.2L", "₹10,000", "Rs. 500", " 42 ", "-5000",
     "abc", "n/a", "k", "1.2.3", "nan", "inf",
     "{\"value\": \"900\"}", "{\"text\": \"7k\"}", "{\"value\": 900}",
     "{\"other\": 1}", "{broken", "\"250\""}

RevenueInputs ==
    {PyNone, PyHugeInt, PyInt(Fin(0)), PyInt(Fin(50000)), PyFloat(Fin(125)),
     PyFloat(NaN), PyFloat(Inf(1))}
        \cup {PyStr(s) : s \in RevenueTexts}

\* a schema's columns for find_column, in each order a board can list them
MaxColumns == 3
FindColumns ==
    {[id |-> "a", title |-> "Deal Status"], [id |-> "b", title |-> "Deal Stage"],
     [id |-> "c", title |-> "Sector/service"]}
FindSchemas ==
    UNION {{cs \in [1..n -> FindColumns] : \A i, j \in 1..n : cs[i] = cs[j] => i = j} :
              n \in 0..MaxColumns}
MaxKeywords == 2
FindKeywords == {"status", "STAGE", "deal", "owner"}
FindKeywordLists ==
    UNION {{ks \in [1..n -> FindKeywords] : \A i, j \in 1..n : ks[i] = ks[j] => i = j} :
              n \in 1..MaxKeywords}
FindItems ==
    {[_item_name |-> "Alpha", a |-> "Won", b |-> "Negotiation", c |-> "Mining"],
     [_item_name |-> "Beta", a |-> "Open", c |-> "Rail"]}

CleanInit ==
    /\ SvcInit
    /\ ret = NotReturned
    /\ \/ /\ call = "normalize_revenue"
          /\ args \in {[NoArgs EXCEPT !.value = v] : v \in RevenueInputs}
       \/ /\ call = "find_column"
          /\ args \in {[NoArgs EXCEPT !.item = it, !.schema = [columns |-> cs],
                                       !.keywords = ks] :
                          it \in FindItems, cs \in FindSchemas, ks \in FindKeywordLists}
       \/ /\ call = "map_deal_status"
          /\ args \in {[NoArgs EXCEPT !.status = s, !.stage = st] :
                          s \in RawStatuses, st \in RawStages}
       \/ /\ call = "clean_deals_df"
          /\ args \in CleanArgs(DealItems, DealRows, DEALS_SCHEMA)
       \/ /\ call = "clean_workorders_df"
          /\ args \in CleanArgs(WoItems, WoRows, WORKORDERS_SCHEMA)

run_map_deal_status ==
    /\ call = "map_deal_status"
    /\ ~ret.done
    /\ ret' = Returned(map_deal_status(args.status, args.stage))
    /\ UNCHANGED <<call, args, svars>>

run_normalize_revenue ==
    /\ call = "normalize_revenue"
    /\ ~ret.done
    /\ ret' = normalize_revenue_any(args.value)
    /\ UNCHANGED <<call, args, svars>>

run_find_column ==
    /\ call = "find_column"
    /\ ~ret.done
    /\ ret' = Returned(find_column(args.item, args.schema.columns, args.keywords))
    /\ UNCHANGED <<call, args, svars>>

run_clean_deals_df ==
    /\ call = "clean_deals_df"
    /\ ~ret.done
    /\ ret' = clean_deals_df(args.raw_items, args.schema)
    /\ UNCHANGED <<call, args, svars>>

run_clean_workorders_df ==
    /\ call = "clean_workorders_df"
    /\ ~ret.done
    /\ ret' = clean_workorders_df(args.raw_items, args.schema)
    /\ UNCHANGED <<call, args, svars>>

CleanNext ==
    \/ run_normalize_revenue
    \/ run_find_column
    \/ run_map_deal_status
    \/ run_clean_deals_df
    \/ run_clean_workorders_df

SpecClean == CleanInit /\ [][CleanNext]_vars

\* ---------------------------------------------------------------------
\* Properties of the data_cleaner calls
\* ---------------------------------------------------------------------

ReturnedFrom(fn) == call = fn /\ ret.done /\ ~ret.raised

CANONICAL_STATUSES == {"Open", "Won", "Dead", "On Hold"}

C4_Expected(s, st) ==
    CASE s = "won" -> "Won"
      [] s = "dead" -> "Dead"
      [] s = "on hold" -> "On Hold"
      [] st \in WON_STAGES -> "Won"
      [] st \in DEAD_STAGES -> "Dead"
      [] OTHER -> "Open"

\* C4: map_deal_status returns one of Open, Won, Dead, On Hold: the one the
\* normalized status names when it is won, dead or on hold, whatever the
\* stage; otherwise Won for a won stage, Dead for a dead stage, Open for
\* anything else.  Every deal record carries one of the four values.
C4_StatusPrecedence ==
    /\ ReturnedFrom("map_deal_status") =>
          /\ ret.value \in CANONICAL_STATUSES
          /\ ret.value = C4_Expected(normalize_text(args.status),
                                     normalize_text(args.stage))
    /\ ReturnedFrom("clean_deals_df") =>
          \A k \in 1..Len(ret.value) : ret.value[k].status \in CANONICAL_STATUSES

\* an explicit dead status has overridden a won stage
C4_Witness ==
    /\ ReturnedFrom("map_deal_status")
    /\ normalize_text(args.status) = "dead"
    /\ normalize_text(args.stage) \in WON_STAGES
    /\ ret.value = "Dead"

\* C5: every deal record produced by clean_deals_df has
\* weighted_value == deal_value * probability.
C5_WeightedValue ==
    ReturnedFrom("clean_deals_df") =>
        \A k \in 1..Len(ret.value) :
            FEq(ret.value[k].weighted_value,
                FMul(ret.value[k].deal_value, ret.value[k].probability))

C6_Max0(diff) == IF FGt(diff, Fin(0)) THEN diff ELSE Fin(0)

\* C6: every work-order record produced by clean_workorders_df has
\* unbilled_amount == max(0, amount_excl_gst - billed_excl_gst), and
\* unbilled_amount >= 0.
C6_Unbilled ==
    ReturnedFrom("clean_workorders_df") =>
        \A k \in 1..Len(ret.value) :
            /\ FEq(ret.value[k].unbilled_amount,
                   C6_Max0(FSub(ret.value[k].amount_excl_gst,
                                ret.value[k].billed_excl_gst)))
            /\ FGe(ret.value[k].unbilled_amount, Fin(0))

\* a record billed beyond its amount has its unbilled amount clamped to zero
C6_Witness ==
    /\ ReturnedFrom("clean_workorders_df")
    /\ \E k \in 1..Len(ret.value) :
          /\ FGt(ret.value[k].billed_excl_gst, ret.value[k].amount_excl_gst)
          /\ ret.value[k].unbilled_amount = Fin(0)

\* C7: deal records have deal_value >= 0 and probability in [0, 1];
\* work-order records have amount_excl_gst >= 0 and billed_excl_gst >= 0.
C7_NumericRanges ==
    /\ ReturnedFrom("clean_deals_df") =>
          \A k \in 1..Len(ret.value) :
              /\ FGe(ret.value[k].deal_value, Fin(0))
              /\ ret.value[k].probability \in 0..100
    /\ ReturnedFrom("clean_workorders_df") =>
          \A k \in 1..Len(ret.value) :
              /\ FGe(ret.value[k].amount_excl_gst, Fin(0))
              /\ FGe(ret.value[k].billed_excl_gst, Fin(0))

EXEC_STATUSES ==
    {"Completed", "Ongoing", "Not Started", "Paused", "Partially Completed",
     "Pending", "Unknown"}

\* C8: every work-order record has exec_status among the seven canonical
\* values, and is_active exactly when exec_status is Ongoing, Not Started,
\* Paused, Partially Completed or Pending.
C8_ExecStatusAndActive ==
    ReturnedFrom("clean_workorders_df") =>
        \A k \in 1..Len(ret.value) :
            /\ ret.value[k].exec_status \in EXEC_STATUSES
            /\ ret.value[k].is_active <=>
                   ret.value[k].exec_status \in
                       {"Ongoing", "Not Started", "Paused", "Partially Completed",
                        "Pending"}

\* a paused work order has been recorded as active
C8_Witness ==
    /\ ReturnedFrom("clean_workorders_df")
    /\ \E k \in 1..Len(ret.value) :
          ret.value[k].exec_status = "Paused" /\ ret.value[k].is_active

\* the substring rules of clean_workorders_df, each with its target
EXEC_STATUS_RULES ==
    {<<"completed", "Completed">>, <<"ongoing", "Ongoing">>,
     <<"executed until", "Ongoing">>, <<"not started", "Not Started">>,
     <<"pause", "Paused">>, <<"struck", "Paused">>,
     <<"partial", "Partially Completed">>, <<"pending", "Pending">>,
     <<"details pending", "Pending">>}

\* the normalized execution-status text of the k-th kept work-orders row
C9_Text(k) ==
    normalize_text(find_column(Kept(args.raw_items, "workorders")[k],
                               args.schema.columns, EXEC_STATUS_KEYWORDS))

\* C9: the execution-status rules do not overlap: a status text that
\* contains a rule's substring is classified as that rule's target,
\* whatever the order in which the rules are tried.
C9_RulesDoNotOverlap ==
    ReturnedFrom("clean_workorders_df") =>
        \A k \in 1..Len(ret.value) : \A rule \in EXEC_STATUS_RULES :
            Contains(C9_Text(k), rule[1]) => ret.value[k].exec_status = rule[2]

\* the literal header text of clean_deals_df's skip rule
HEADER_PLACEHOLDER == "deal name"

C10_Dropped(name) == name = "" \/ Lower(name) = HEADER_PLACEHOLDER

\* the stripped names of the items that are not to be dropped, in order
RECURSIVE C10_ExpectedNames(_)
C10_ExpectedNames(raw_items) ==
    IF raw_items = <<>> THEN <<>>
    ELSE IF C10_Dropped(Strip(Get(Head(raw_items), "_item_name")))
    THEN C10_ExpectedNames(Tail(raw_items))
    ELSE <<Strip(Get(Head(raw_items), "_item_name"))>>
             \o C10_ExpectedNames(Tail(raw_items))

\* C10: for deals and for work orders alike, the records are, in input
\* order, one per raw item whose name is neither empty nor the header
\* placeholder; the other items are dropped.
C10_OneRecordPerKeptItem ==
    /\ ReturnedFrom("clean_deals_df") =>
          [k \in 1..Len(ret.value) |-> ret.value[k].deal_name]
              = C10_ExpectedNames(args.raw_items)
    /\ ReturnedFrom("clean_workorders_df") =>
          [k \in 1..Len(ret.value) |-> ret.value[k].wo_name]
              = C10_ExpectedNames(args.raw_items)

\* C11: a call of either record builder returns and does not raise, whatever
\* cells its rows hold, and hands back no record for an empty batch.
C11_BuilderNeverFails ==
    (call \in {"clean_deals_df", "clean_workorders_df"} /\ ret.done) =>
        /\ ~ret.raised
        /\ args.raw_items = <<>> => ret.value = <<>>

\* the texts of RevenueTexts that spell no amount
C12_NoAmount ==
    {"", "abc", "n/a", "k", "1.2.3", "nan", "inf", "{\"other\": 1}", "{broken"}

\* C12: normalize_revenue returns, for every input, a finite number and
\* raises nothing; what spells no amount gives 0, "10k" gives 10000,
\* "2.5Cr" gives 25000000, "" and None give 0.
C12_RevenueTotal ==
    (call = "normalize_revenue" /\ ret.done) =>
        /\ ~ret.raised
        /\ ret.value.k = "fin"
        /\ args.value.t = "None" => ret.value = Fin(0)
        /\ (args.value.t = "str" /\ args.value.s \in C12_NoAmount) => ret.value = Fin(0)
        /\ args.value = PyStr("10k") => ret.value = Fin(10 * 10000)
        /\ args.value = PyStr("2.5Cr") => ret.value = Fin(10 * 25000000)

\* the columns whose lowercased title contains a keyword, the keywords
\* taken as a set
C13_Hits(cols, kws) ==
    {i \in 1..Len(cols) :
        \E kw \in {kws[k] : k \in 1..Len(kws)} : Contains(Lower(cols[i].title), Lower(kw))}

C13_Reversed(kws) == [k \in 1..Len(kws) |-> kws[Len(kws) + 1 - k]]

\* C13: find_column returns the item's value under the first column, in
\* schema order, whose lowercased title contains a lowercased keyword, and
\* "" when no title does; the order of the keywords changes nothing.
C13_FirstColumnInSchemaOrder ==
    ReturnedFrom("find_column") =>
        /\ C13_Hits(args.schema.columns, args.keywords) = {} => ret.value = ""
        /\ \A i \in C13_Hits(args.schema.columns, args.keywords) :
              (\A j \in C13_Hits(args.schema.columns, args.keywords) : i <= j)
                  => ret.value = Get(args.item, args.schema.columns[i].id)
        /\ ret.value = find_column(args.item, args.schema.columns,
                                   C13_Reversed(args.keywords))

\* the first keyword is found only in the second column, the second keyword
\* in the first column, and the first column's value came back
C13_Witness ==
    /\ ReturnedFrom("find_column")
    /\ Len(args.keywords) = 2
    /\ Len(args.schema.columns) >= 2
    /\ ~Contains(Lower(args.schema.columns[1].title), Lower(args.keywords[1]))
    /\ Contains(Lower(args.schema.columns[2].title), Lower(args.keywords[1]))
    /\ Contains(Lower(args.schema.columns[1].title), Lower(args.keywords[2]))
    /\ ret.value = Get(args.item, args.schema.columns[1].id)
    /\ ret.value # Get(args.item, args.schema.columns[2].id)

\* ---------------------------------------------------------------------
\* analytics.py: the rollups over the cleaned frames.  A frame is the
\* sequence of its rows; the clock the code reads (date.today(),
\* pd.Timestamp.today()) is the argument `today`.  Where a dict entry is
\* the _fmt_inr rendering of a local variable, the result carries the
\* variable under its own name (closing_value, by_sector, ...); the
\* entries top_sector and top_sector_pct are left out.
\* ---------------------------------------------------------------------

Year(d) == d \div 10000
Month(d) == (d \div 100) % 100
Date(y, m, d) == y * 10000 + m * 100 + d

\* a + b on floats of the same scale
FAdd(a, b) ==
    CASE a.k = "nan" \/ b.k = "nan" -> NaN
      [] a.k = "inf" /\ b.k = "inf" -> IF a.v = b.v THEN a ELSE NaN
      [] a.k = "inf" -> a
      [] b.k = "inf" -> b
      [] OTHER -> Fin(a.v + b.v)

\* Series.sum(): the NaN entries are skipped, an empty sum is 0
RECURSIVE SumFrom(_, _, _)
SumFrom(values, i, acc) ==
    IF i > Len(values) THEN acc
    ELSE SumFrom(values, i + 1,
                 IF values[i].k = "nan" THEN acc ELSE FAdd(acc, values[i]))

Column(df, col) == [i \in 1..Len(df) |-> df[i][col]]

pandas_sum(df, col) == SumFrom(Column(df, col), 1, Fin(0))

\* df[df[col] == value]
RowsWhere(df, col, value) == SelectSeq(df, LAMBDA r : r[col] = value)

\* df.groupby(key)[col].sum(), as the mapping from each key to its sum
groupby_sum(df, key, col) ==
    [g \in {df[i][key] : i \in 1..Len(df)} |-> pandas_sum(RowsWhere(df, key, g), col)]

\* round(100 * n / d, 1) for d > 0, in tenths: the nearest tenth, a tie
\* going to the even one
RoundHalfEven(q, twice_rest, d) ==
    IF twice_rest > d \/ (twice_rest = d /\ q % 2 = 1) THEN q + 1 ELSE q

\* mutant: the percentage is cut after the first decimal
round_pct_floor(n, d) == (1000 * n) \div d

round_pct(n, d) == RoundHalfEven((1000 * n) \div d, 2 * ((1000 * n) % d), d)

\* the absent period argument
NoPeriod == "<None>"

_current_quarter_bounds(today) ==
    CASE Month(today) \in {4, 5, 6} -> <<Date(Year(today), 4, 1), Date(Year(today), 6, 30)>>
      [] Month(today) \in {7, 8, 9} -> <<Date(Year(today), 7, 1), Date(Year(today), 9, 30)>>
      [] Month(today) \in {10, 11, 12} ->
             <<Date(Year(today), 10, 1), Date(Year(today), 12, 31)>>
      [] OTHER -> <<Date(Year(today), 1, 1), Date(Year(today), 3, 31)>>

fy_start(today) ==
    Date(IF Month(today) >= 4 THEN Year(today) ELSE Year(today) - 1, 4, 1)

\* (df[date_col] >= q_start) & (df[date_col] <= q_end); NaT compares False
between(d, bounds) == d # NaT /\ d >= bounds[1] /\ d <= bounds[2]

\* the mask of _filter_by_period on one date
period_mask(d, period, today) ==
    CASE period = "this_month" ->
             d # NaT /\ Year(d) = Year(today) /\ Month(d) = Month(today)
      [] period = "this_quarter" -> between(d, _current_quarter_bounds(today))
      [] period = "ytd" -> d # NaT /\ d >= fy_start(today)
      [] OTHER -> TRUE

_filter_by_period(df, date_col, period, today) ==
    IF period = NoPeriod \/ df = <<>> \/ date_col \notin DOMAIN df[1]
    THEN df
    ELSE IF period \notin {"this_month", "this_quarter", "ytd"} THEN df
    ELSE SelectSeq(df, LAMBDA r : period_mask(r[date_col], period, today))

\* `if period:`
period_given(period) == period # NoPeriod /\ period # ""

\* `period or "all time"`
period_label(period) == IF period_given(period) THEN period ELSE "all time"

ERROR_NO_DEALS == [error |-> "No deals data available."]
ERROR_NO_WORKORDERS == [error |-> "No work orders data available."]
ERROR_BOTH_REQUIRED ==
    [error |-> "Both deals and work orders data are required for cross-board analysis."]

\* won.dropna(subset=["close_date"]) grouped by the month of close_date
\* (the key yyyymm stands for the text "yyyy-mm")
by_month_of(dated) ==
    [m \in {dated[i].close_date \div 100 : i \in 1..Len(dated)} |->
        SumFrom([i \in 1..Len(dated) |->
                    IF dated[i].close_date \div 100 = m THEN dated[i].deal_value
                    ELSE Fin(0)], 1, Fin(0))]

revenue_of_won(won, period) ==
    IF won = <<>>
    THEN [closed_total |-> Fin(0), by_sector |-> <<>>, by_month |-> <<>>, count |-> 0,
          summary |-> "No Won deals found for the selected period."]
    ELSE [closed_total |-> pandas_sum(won, "deal_value"),
          count |-> Len(won),
          by_sector |-> groupby_sum(won, "sector", "deal_value"),
          by_month |-> by_month_of(SelectSeq(won, LAMBDA r : r.close_date # NaT)),
          period |-> period_label(period)]

\* mutant: the deals of every status are taken
any_status_in_period(deals, status, period, today) ==
    IF period_given(period)
    THEN _filter_by_period(deals, "close_date", period, today)
    ELSE deals

status_in_period(deals, status, period, today) ==
    IF period_given(period)
    THEN _filter_by_period(RowsWhere(deals, "status", status), "close_date", period, today)
    ELSE RowsWhere(deals, "status", status)

revenue_analytics(deals, period, today) ==
    IF deals = <<>> THEN ERROR_NO_DEALS
    ELSE revenue_of_won(status_in_period(deals, "Won", period, today), period)

pipeline_of_open(open_deals, closing_q, period) ==
    IF open_deals = <<>>
    THEN [pipeline_total |-> Fin(0), weighted_pipeline |-> Fin(0), count |-> 0,
          by_sector |-> <<>>, closing_this_quarter |-> 0,
          summary |-> "No open deals found."]
    ELSE [pipeline_total |-> pandas_sum(open_deals, "deal_value"),
          weighted_pipeline |-> pandas_sum(open_deals, "weighted_value"),
          count |-> Len(open_deals),
          by_sector |-> groupby_sum(open_deals, "sector", "deal_value"),
          closing_value |-> pandas_sum(closing_q, "deal_value"),
          closing_this_quarter_count |-> Len(closing_q),
          high_prob |-> pandas_sum(SelectSeq(open_deals, LAMBDA r : r.probability >= 75),
                                   "deal_value"),
          mid_prob |-> pandas_sum(SelectSeq(open_deals,
                                      LAMBDA r : r.probability >= 40 /\ r.probability < 75),
                                  "deal_value"),
          low_prob |-> pandas_sum(SelectSeq(open_deals, LAMBDA r : r.probability < 40),
                                  "deal_value"),
          period |-> period_label(period)]

closing_in(open_deals, bounds) ==
    SelectSeq(open_deals, LAMBDA r : between(r.close_date, bounds))

pipeline_of_filtered(open_deals, period, today) ==
    pipeline_of_open(open_deals, closing_in(open_deals, _current_quarter_bounds(today)), period)

pipeline_health(deals, period, today) ==
    IF deals = <<>> THEN ERROR_NO_DEALS
    ELSE pipeline_of_filtered(status_in_period(deals, "Open", period, today), period, today)

\* Series.value_counts() as the mapping from each value to its count
value_counts(df, col) ==
    [g \in {df[i][col] : i \in 1..Len(df)} |-> Len(RowsWhere(df, col, g))]

\* mutant: 30 active work orders are already a high load
operational_risk_from_30(active_count) ==
    IF active_count >= 30 THEN "High"
    ELSE IF active_count > 15 THEN "Medium"
    ELSE "Low"

operational_risk_of(active_count) ==
    IF active_count > 30 THEN "High"
    ELSE IF active_count > 15 THEN "Medium"
    ELSE "Low"

metrics_of(workorders, active, completed) ==
    [total_work_orders |-> Len(workorders),
     active_count |-> Len(active),
     completed_count |-> Len(completed),
     paused_count |-> Len(RowsWhere(workorders, "exec_status", "Paused")),
     by_status |-> value_counts(workorders, "exec_status"),
     by_sector |-> groupby_sum(active, "sector", "amount_excl_gst"),
     backlog_raw |-> pandas_sum(active, "unbilled_amount"),
     completed_revenue |-> pandas_sum(completed, "amount_excl_gst"),
     operational_risk |-> operational_risk_of(Len(active))]

operational_metrics(workorders) ==
    IF workorders = <<>> THEN ERROR_NO_WORKORDERS
    ELSE metrics_of(workorders,
                    SelectSeq(workorders, LAMBDA r : r.is_active),
                    RowsWhere(workorders, "exec_status", "Completed"))

\* .str.strip().str.lower()
name_norm(name) == Lower(Strip(name))

name_norms(df, col) == {name_norm(df[i][col]) : i \in 1..Len(df)}

\* len(matched): the distinct normalized names of Won deals that some work
\* order links to
conversion_count_of(won, workorders) ==
    Cardinality(name_norms(won, "deal_name")
                    \cap name_norms(workorders, "deal_name_linked"))

\* mutant: only an empty deals frame is an error
\* mutant: every deal counts in the denominator of the win rate
all_deals_count(deals) == Len(deals)

\* len(deals[deals["status"].isin(["Open", "Won"])])
total_open_closed_of(deals) ==
    Len(SelectSeq(deals, LAMBDA r : r.status \in {"Open", "Won"}))

rate_of(n, d) == IF d > 0 THEN round_pct(n, d) ELSE 0

\* mutant: the division is not guarded by won_value > 0
realization_rate_of_unguarded(wo_value, won_value) ==
    IF won_value.k = "fin" /\ wo_value.k = "fin" /\ won_value.v > 0 /\ wo_value.v >= 0
    THEN Fin(round_pct(wo_value.v, won_value.v))
    ELSE IF FEq(won_value, Fin(0)) /\ FGt(wo_value, Fin(0)) THEN Inf(1)
    ELSE NaN

\* (wo_value / won_value * 100).where(won_value > 0, 0).round(1), in tenths
realization_rate_of(wo_value, won_value) ==
    IF ~FGt(won_value, Fin(0)) THEN Fin(0)
    ELSE IF won_value.k = "inf"
    THEN (IF wo_value.k = "fin" THEN Fin(0) ELSE NaN)
    ELSE IF wo_value.k # "fin" THEN wo_value
    ELSE IF wo_value.v >= 0 THEN Fin(round_pct(wo_value.v, won_value.v))
    ELSE Fin(0 - round_pct(0 - wo_value.v, won_value.v))

\* pd.concat([won_by_sector, wo_by_sector], axis=1).fillna(0)
filled(by_sector, s) == IF s \in DOMAIN by_sector THEN by_sector[s] ELSE Fin(0)

sector_perf_row(won_value, wo_value) ==
    [won_value |-> won_value, wo_value |-> wo_value,
     realization_rate |-> realization_rate_of(wo_value, won_value)]

sector_perf_of(won_by_sector, wo_by_sector) ==
    [s \in (DOMAIN won_by_sector) \cup (DOMAIN wo_by_sector) |->
        sector_perf_row(filled(won_by_sector, s), filled(wo_by_sector, s))]

cross_of(deals, workorders, won, conversion_count, total_open_closed) ==
    [won_deals_count |-> Len(won),
     conversion_rate_pct |-> rate_of(Len(won), total_open_closed),
     wo_coverage_rate_pct |-> rate_of(conversion_count, Len(won)),
     total_pipeline |-> pandas_sum(RowsWhere(deals, "status", "Open"), "deal_value"),
     total_closed |-> pandas_sum(won, "deal_value"),
     total_wo_value |-> pandas_sum(workorders, "amount_excl_gst"),
     sector_performance |-> sector_perf_of(groupby_sum(won, "sector", "deal_value"),
                                groupby_sum(workorders, "sector", "amount_excl_gst"))]

cross_of_won(deals, workorders, won) ==
    cross_of(deals, workorders, won, conversion_count_of(won, workorders),
             total_open_closed_of(deals))

\* mutant: only an empty deals frame makes the cross-board rollup an error
cross_board_analysis_deals_only(deals, workorders) ==
    IF deals = <<>> THEN ERROR_BOTH_REQUIRED
    ELSE cross_of_won(deals, workorders, RowsWhere(deals, "status", "Won"))

cross_board_analysis(deals, workorders) ==
    IF deals = <<>> \/ workorders = <<>> THEN ERROR_BOTH_REQUIRED
    ELSE cross_of_won(deals, workorders, RowsWhere(deals, "status", "Won"))

\* ---------------------------------------------------------------------
\* The frames as objects.  A heap is the sequence of the frame objects, the
\* object i having the rows heap[i]; the caller's deals frame is object 1
\* and its work-orders frame object 2.  A frame in use is a pair
\* <<heap, i>>.
\* ---------------------------------------------------------------------

heap_of(deals, workorders) == <<deals, workorders>>

\* df[mask], df.dropna(...): the rows are put into a new object
new_frame(heap, rows) == <<Append(heap, rows), Len(heap) + 1>>

rows_of(p) == p[1][p[2]]

\* mutant: copy() hands back the object it is called on
same_frame(heap, i) == <<heap, i>>

\* DataFrame.copy()
df_copy(heap, i) == new_frame(heap, heap[i])

\* df[col] = values: the column is set in the object itself
set_column(heap, i, col, Value(_)) ==
    [heap EXCEPT ![i] = [n \in 1..Len(heap[i]) |-> (col :> Value(heap[i][n])) @@ heap[i][n]]]

\* won_with_date = won.dropna(subset=["close_date"]), copied and given the
\* column month when it has rows
revenue_heap_dated(p) ==
    IF rows_of(p) = <<>> THEN p[1]
    ELSE set_column(df_copy(p[1], p[2])[1], df_copy(p[1], p[2])[2], "month",
                    LAMBDA r : r.close_date \div 100)

revenue_heap_won(p) ==
    IF rows_of(p) = <<>> THEN p[1]
    ELSE revenue_heap_dated(new_frame(p[1], SelectSeq(rows_of(p),
                                                      LAMBDA r : r.close_date # NaT)))

\* _filter_by_period hands back the frame itself or df[mask]
filtered_frame(p, period, today) ==
    IF period_given(period) /\ rows_of(p) # <<>>
          /\ period \in {"this_month", "this_quarter", "ytd"}
    THEN new_frame(p[1], _filter_by_period(rows_of(p), "close_date", period, today))
    ELSE p

revenue_heap_selected(p, period, today) ==
    revenue_heap_won(filtered_frame(df_copy(p[1], p[2]), period, today))

\* the heap when revenue_analytics returns
revenue_heap(deals, period, today) ==
    IF deals = <<>> THEN heap_of(deals, <<>>)
    ELSE revenue_heap_selected(new_frame(heap_of(deals, <<>>),
                                         RowsWhere(deals, "status", "Won")),
                               period, today)

cross_heap_norms(heap, deals_id, wo_id) ==
    set_column(set_column(heap, deals_id, "_name_norm", LAMBDA r : name_norm(r.deal_name)),
               wo_id, "_name_norm", LAMBDA r : name_norm(r.deal_name_linked))

cross_heap_copied(deals_id, w) == cross_heap_norms(w[1], deals_id, w[2])

cross_heap_deals(d) == cross_heap_copied(d[2], df_copy(d[1], 2))

\* the heap when cross_board_analysis returns
cross_heap(deals, workorders) ==
    IF deals = <<>> \/ workorders = <<>> THEN heap_of(deals, workorders)
    ELSE cross_heap_deals(df_copy(heap_of(deals, workorders), 1))

\* _get_current_quarter_label (agent.py); "-" stands for the dash of the
\* month ranges
q_names == <<"Apr-Jun", "Jul-Sep", "Oct-Dec", "Jan-Mar">>

label_of(fq, fy, year) ==
    "Q" \o IntText(fq) \o " FY" \o IntText(fy) \o " (" \o q_names[fq] \o " "
        \o IntText(year) \o ")"

_get_current_quarter_label(today) ==
    IF Month(today) >= 4
    THEN label_of((Month(today) - 4) \div 3 + 1, Year(today) + 1, Year(today))
    ELSE label_of((Month(today) + 8) \div 3, Year(today), Year(today))

run_get_current_quarter_label ==
    /\ call = "_get_current_quarter_label"
    /\ ~ret.done
    /\ ret' = Returned(_get_current_quarter_label(args.today))
    /\ UNCHANGED <<call, args, svars>>

\* the first, a middle and the last day of every month of a year
LabelDays == {Date(2025, m, d) : m \in 1..12, d \in {1, 15, 28}}

\* ---------------------------------------------------------------------
\* The rollups as calls: frames of up to MaxRows rows of the shape the
\* record builders return, each period argument, and two days of the
\* financial calendar as `today`.
\* ---------------------------------------------------------------------

MaxRows == 2

\* a row of the deals frame; value in rupees, probability in hundredths
DealRow(name, status, sector, value, probability, close_date) ==
    [deal_name |-> name, owner_code |-> "", client_code |-> "", status |-> status,
     stage |-> "", sector |-> sector, deal_value |-> Fin(10 * value),
     probability |-> probability,
     weighted_value |-> FMul(Fin(10 * value), probability),
     close_date |-> close_date, created_date |-> NaT, product |-> ""]

\* a row of the work-orders frame; amounts in rupees
WoRow(name, linked, sector, exec_status, amount, billed) ==
    [wo_name |-> name, deal_name_linked |-> linked, sector |-> sector,
     exec_status |-> exec_status, is_active |-> is_active_of(exec_status),
     amount_excl_gst |-> Fin(10 * amount), billed_excl_gst |-> Fin(10 * billed),
     unbilled_amount |-> unbilled_amount_of(Fin(10 * amount), Fin(10 * billed)),
     wo_status |-> "", nature_of_work |-> "", owner_code |-> "",
     start_date |-> NoDate, end_date |-> NoDate]

FramesOf(rows) == UNION {[1..n -> rows] : n \in 0..MaxRows}

Todays == {20250515, 20250210}

Periods == {NoPeriod, "this_month", "this_quarter", "ytd", "last_year"}

PeriodDeals ==
    {DealRow("Acme", "Won", "mining", 100, 80, 20250520),
     DealRow("Bolt", "Won", "mining", 250, 80, 20250410),
     DealRow("Cask", "Won", "rail", 400, 50, NaT),
     DealRow("Dune", "Won", "rail", 50, 80, 20250205),
     DealRow("Echo", "Won", "rail", 60, 80, 20240331),
     DealRow("Fern", "Open", "mining", 300, 50, 20250630),
     DealRow("Gale", "Open", "rail", 200, 80, 20250510),
     DealRow("Hawk", "Open", "rail", 120, 25, NaT),
     DealRow("Iris", "Open", "mining", 80, 0, 20250701),
     DealRow("Jade", "Dead", "mining", 70, 0, 20250512)}

CrossDeals ==
    {DealRow("Acme", "Won", "mining", 100, 80, 20250410),
     DealRow(" ACME ", "Won", "mining", 250, 80, NaT),
     DealRow("Beta", "Won", "rail", 0, 0, NaT),
     DealRow("Zed", "Won", "rail", 40, 50, 20250205),
     DealRow("Gamma", "Open", "rail", 300, 50, 20250630),
     DealRow("Delta", "Dead", "mining", 50, 0, NaT)}

CrossWorkOrders ==
    {WoRow("WO-1", "acme", "mining", "Executing", 80, 30),
     WoRow("WO-2", "Beta ", "rail", "Completed", 30, 30),
     WoRow("WO-3", "Other", "power", "Paused", 60, 0),
     WoRow("WO-4", "acme", "rail", "Not Started", 0, 0)}

MaxWorkOrders == 32

\* n work orders of which the first a are active; every one has an
\* unbilled amount
LoadWorkOrders(n, a) ==
    [i \in 1..n |->
        WoRow("WO", "Deal", "mining",
              IF i > a THEN (IF i % 2 = 0 THEN "Completed" ELSE "Cancelled")
              ELSE IF i % 2 = 0 THEN "Paused" ELSE "Ongoing",
              100 + i, 30)]

LoadFrames == {LoadWorkOrders(n, a) : n \in 1..MaxWorkOrders, a \in 0..MaxWorkOrders}

\* the deals of the worked example: A is Won, B is Open with probability
\* 0.5, C is Dead
ExampleA(close_date) == DealRow("A", "Won", "mining", 500000, 100, close_date)
ExampleB(close_date) == DealRow("B", "Open", "rail", 2000000, 50, close_date)
ExampleC == DealRow("C", "Dead", "rail", 100000, 0, NaT)

ExampleFrames ==
    UNION {{<<ExampleA(a), ExampleB(b), ExampleC>>, <<ExampleC, ExampleB(b), ExampleA(a)>>} :
              a \in {20240401, 20250210, 20250401, 20250515}, b \in {NaT, 20250630}}

AnalyticsInit ==
    /\ SvcInit
    /\ ret = NotReturned
    /\ \/ /\ call \in {"_filter_by_period", "revenue_analytics", "pipeline_health"}
          /\ args \in {[NoArgs EXCEPT !.deals_df = df, !.period = p, !.today = t] :
                          df \in FramesOf(PeriodDeals) \cup ExampleFrames,
                          p \in Periods, t \in Todays}
       \/ /\ call = "_get_current_quarter_label"
          /\ args \in {[NoArgs EXCEPT !.today = t] : t \in LabelDays}
       \/ /\ call = "operational_metrics"
          /\ args \in {[NoArgs EXCEPT !.workorders_df = wo] :
                          wo \in FramesOf(CrossWorkOrders) \cup LoadFrames}
       \/ /\ call = "cross_board_analysis"
          /\ args \in {[NoArgs EXCEPT !.deals_df = df, !.workorders_df = wo] :
                          df \in FramesOf(CrossDeals) \cup ExampleFrames,
                          wo \in FramesOf(CrossWorkOrders)}

run_filter_by_period ==
    /\ call = "_filter_by_period"
    /\ ~ret.done
    /\ ret' = Returned(_filter_by_period(args.deals_df, "close_date", args.period,
                                         args.today))
    /\ UNCHANGED <<call, args, svars>>

run_revenue_analytics ==
    /\ call = "revenue_analytics"
    /\ ret' = Returned(revenue_analytics(args.deals_df, args.period, args.today))
    /\ args' = [args EXCEPT !.deals_df = revenue_heap(args.deals_df, args.period, args.today)[1]]
    /\ UNCHANGED <<call, svars>>

run_pipeline_health ==
    /\ call = "pipeline_health"
    /\ ret' = Returned(pipeline_health(args.deals_df, args.period, args.today))
    /\ UNCHANGED <<call, args, svars>>

run_operational_metrics ==
    /\ call = "operational_metrics"
    /\ ret' = Returned(operational_metrics(args.workorders_df))
    /\ UNCHANGED <<call, args, svars>>

run_cross_board_analysis ==
    /\ call = "cross_board_analysis"
    /\ ret' = Returned(cross_board_analysis(args.deals_df, args.workorders_df))
    /\ args' = [args EXCEPT !.deals_df = cross_heap(args.deals_df, args.workorders_df)[1],
                          !.workorders_df = cross_heap(args.deals_df, args.workorders_df)[2]]
    /\ UNCHANGED <<call, svars>>

AnalyticsNext ==
    \/ run_filter_by_period
    \/ run_revenue_analytics
    \/ run_pipeline_health
    \/ run_operational_metrics
    \/ run_cross_board_analysis
    \/ run_get_current_quarter_label

SpecAnalytics == AnalyticsInit /\ [][AnalyticsNext]_vars

\* ---------------------------------------------------------------------
\* Properties of the rollups
\* ---------------------------------------------------------------------

HasError(result) == "error" \in DOMAIN result

\* the financial quarter of a month: 1 Apr-Jun, 2 Jul-Sep, 3 Oct-Dec, 4 Jan-Mar
FinancialQuarter(m) ==
    CASE m \in 4..6 -> 1
      [] m \in 7..9 -> 2
      [] m \in 10..12 -> 3
      [] OTHER -> 4

\* the latest April 1 that is not after the day
FinancialYearStart(day) ==
    CHOOSE a \in {Date(Year(day) - 1, 4, 1), Date(Year(day), 4, 1)} :
        a <= day /\ day < a + 10000

\* the windows as stated: the calendar month of today, the financial
\* quarter of today, and April 1 of the financial year through today
InWindow(d, period, today) ==
    /\ d # NaT
    /\ CASE period = "this_month" -> d \div 100 = today \div 100
         [] period = "this_quarter" ->
                /\ Year(d) = Year(today)
                /\ FinancialQuarter(Month(d)) = FinancialQuarter(Month(today))
         [] period = "ytd" -> FinancialYearStart(today) <= d /\ d <= today
         [] OTHER -> FALSE

RowsInWindow(df, period, today) ==
    IF period = NoPeriod THEN df
    ELSE SelectSeq(df, LAMBDA r : InWindow(r.close_date, period, today))

KnownPeriods == {NoPeriod, "this_month", "this_quarter", "ytd"}

\* the plain sum of a column
RECURSIVE Total(_, _)
Total(df, col) ==
    IF df = <<>> THEN Fin(0) ELSE FAdd(Head(df)[col], Total(Tail(df), col))

\* rate is n / d as a percentage to the nearest tenth, in tenths
NearestTenth(rate, n, d) ==
    /\ 2 * (rate * d - 1000 * n) <= d
    /\ 2 * (1000 * n - rate * d) <= d

\* C14: _filter_by_period returns exactly the rows whose date is non-null
\* and lies in the window of the period (the current month, the current
\* financial quarter, April 1 of the financial year through today and no
\* later), and every row when no period is given.
C14_RowsOfThePeriod ==
    (ReturnedFrom("_filter_by_period") /\ args.period \in KnownPeriods) =>
        ret.value = RowsInWindow(args.deals_df, args.period, args.today)

\* C15: a rollup called on an empty frame (for the cross-board rollup: on
\* an empty deals frame or an empty work-orders frame) returns a result
\* that carries the error entry, and raises nothing.
C15_EmptyIsAnErrorResult ==
    /\ (call \in {"revenue_analytics", "pipeline_health"} /\ ret.done
            /\ args.deals_df = <<>>)
          => ~ret.raised /\ HasError(ret.value)
    /\ (call = "operational_metrics" /\ ret.done /\ args.workorders_df = <<>>)
          => ~ret.raised /\ HasError(ret.value)
    /\ (call = "cross_board_analysis" /\ ret.done
            /\ (args.deals_df = <<>> \/ args.workorders_df = <<>>))
          => ~ret.raised /\ HasError(ret.value)

\* the cross-board rollup answered deals without work orders with the error
C15_Witness ==
    /\ ReturnedFrom("cross_board_analysis")
    /\ args.deals_df # <<>>
    /\ args.workorders_df = <<>>
    /\ HasError(ret.value)

\* C16: on a non-empty deals frame revenue_analytics returns no error for
\* any period; with no Won deal in the period the result is zero-valued
\* (closed_total 0, count 0, empty breakdowns), otherwise closed_total is
\* the sum of deal_value over the Won deals in the period and count their
\* number; the error entry appears only for an empty deals frame.
C16_RevenueOfThePeriod ==
    (call = "revenue_analytics" /\ ret.done) =>
        /\ ~ret.raised
        /\ HasError(ret.value) <=> args.deals_df = <<>>
        /\ (args.deals_df # <<>> /\ args.period \in KnownPeriods) =>
              /\ ret.value.count =
                    Len(RowsInWindow(RowsWhere(args.deals_df, "status", "Won"),
                                     args.period, args.today))
              /\ ret.value.closed_total =
                    Total(RowsInWindow(RowsWhere(args.deals_df, "status", "Won"),
                                       args.period, args.today), "deal_value")
              /\ ret.value.count = 0 =>
                    ret.value.by_sector = <<>> /\ ret.value.by_month = <<>>

\* the count and the value a pipeline result reports as closing this quarter
ClosingCount(result) ==
    IF "closing_this_quarter_count" \in DOMAIN result
    THEN result.closing_this_quarter_count
    ELSE result.closing_this_quarter

ClosingValue(result) ==
    IF "closing_value" \in DOMAIN result THEN result.closing_value ELSE Fin(0)

\* C17: whatever the period argument, pipeline_health reports as closing
\* this quarter the number and the summed value of all Open deals whose
\* close date lies in the current financial quarter.
C17_ClosingThisQuarter ==
    (ReturnedFrom("pipeline_health") /\ args.deals_df # <<>>) =>
        /\ ClosingCount(ret.value) =
              Len(RowsInWindow(RowsWhere(args.deals_df, "status", "Open"),
                               "this_quarter", args.today))
        /\ ClosingValue(ret.value) =
              Total(RowsInWindow(RowsWhere(args.deals_df, "status", "Open"),
                                 "this_quarter", args.today), "deal_value")

\* the Won deal records whose normalized name is the normalized linked name
\* of some work order
CoveredWon(deals, workorders) ==
    SelectSeq(deals, LAMBDA r :
        /\ r.status = "Won"
        /\ \E k \in 1..Len(workorders) :
              Lower(Strip(workorders[k].deal_name_linked)) = Lower(Strip(r.deal_name)))

\* C18: the work-order coverage rate is the number of Won deal records
\* that a work order links to by normalized name, divided by the number of
\* Won deal records, as a percentage.
C18_CoveragePerDealRecord ==
    (ReturnedFrom("cross_board_analysis") /\ ~HasError(ret.value)
        /\ ret.value.won_deals_count > 0) =>
        NearestTenth(ret.value.wo_coverage_rate_pct,
                     Len(CoveredWon(args.deals_df, args.workorders_df)),
                     Len(RowsWhere(args.deals_df, "status", "Won")))

CountOf(deals, statuses) == Cardinality({i \in 1..Len(deals) : deals[i].status \in statuses})

\* C19: the win rate is Won / (Open + Won) as a percentage; with no Open
\* and no Won deal the win rate and the coverage rate are both 0 and the
\* call raises nothing.
C19_WinRate ==
    (call = "cross_board_analysis" /\ ret.done) =>
        /\ ~ret.raised
        /\ ~HasError(ret.value) =>
              IF CountOf(args.deals_df, {"Open", "Won"}) = 0
              THEN ret.value.conversion_rate_pct = 0 /\ ret.value.wo_coverage_rate_pct = 0
              ELSE NearestTenth(ret.value.conversion_rate_pct,
                                CountOf(args.deals_df, {"Won"}),
                                CountOf(args.deals_df, {"Open", "Won"}))

\* deals that are neither Open nor Won met work orders, and both rates are 0
C19_Witness ==
    /\ ReturnedFrom("cross_board_analysis")
    /\ ~HasError(ret.value)
    /\ CountOf(args.deals_df, {"Open", "Won"}) = 0
    /\ ret.value.conversion_rate_pct = 0
    /\ ret.value.wo_coverage_rate_pct = 0

SectorsOf(df) == {df[i].sector : i \in 1..Len(df)}

\* C20: the sector comparison has one entry for every sector of a Won
\* deal or of a work order; its realization rate is 100 * work-order value
\* / won value when the won value is above 0 and exactly 0 when the won
\* value is 0, always a finite number.
C20_RealizationRate ==
    (ReturnedFrom("cross_board_analysis") /\ ~HasError(ret.value)) =>
        /\ DOMAIN ret.value.sector_performance =
              SectorsOf(RowsWhere(args.deals_df, "status", "Won"))
                  \cup SectorsOf(args.workorders_df)
        /\ \A s \in DOMAIN ret.value.sector_performance :
              /\ ret.value.sector_performance[s].realization_rate.k = "fin"
              /\ FGt(Total(RowsWhere(RowsWhere(args.deals_df, "status", "Won"),
                                     "sector", s), "deal_value"), Fin(0)) =>
                    NearestTenth(ret.value.sector_performance[s].realization_rate.v,
                        Total(RowsWhere(args.workorders_df, "sector", s),
                              "amount_excl_gst").v,
                        Total(RowsWhere(RowsWhere(args.deals_df, "status", "Won"),
                                        "sector", s), "deal_value").v)
              /\ FEq(Total(RowsWhere(RowsWhere(args.deals_df, "status", "Won"),
                                     "sector", s), "deal_value"), Fin(0)) =>
                    ret.value.sector_performance[s].realization_rate = Fin(0)

\* one sector with work-order value and a won value of 0, rated 0, and
\* another with a won value above 0, rated above 0
C20_Witness ==
    /\ ReturnedFrom("cross_board_analysis")
    /\ ~HasError(ret.value)
    /\ \E s \in DOMAIN ret.value.sector_performance :
          /\ FEq(ret.value.sector_performance[s].won_value, Fin(0))
          /\ FGt(ret.value.sector_performance[s].wo_value, Fin(0))
          /\ ret.value.sector_performance[s].realization_rate = Fin(0)
    /\ \E s \in DOMAIN ret.value.sector_performance :
          /\ FGt(ret.value.sector_performance[s].won_value, Fin(0))
          /\ FGt(ret.value.sector_performance[s].realization_rate, Fin(0))

\* ---------------------------------------------------------------------
\* Data-quality caveats (data_cleaner.py) and the leadership report
\* (analytics.py)
\* ---------------------------------------------------------------------

\* str(x) for a float x >= 0 with one decimal, given in tenths: 15.0, 6.2
pct_text(tenths) == IntText(tenths \div 10) \o "." \o DigitText(tenths % 10)

\* "\n".join(lines)
RECURSIVE JoinLines(_)
JoinLines(lines) ==
    IF lines = <<>> THEN ""
    ELSE IF Len(lines) = 1 THEN lines[1]
    ELSE lines[1] \o "\n" \o JoinLines(Tail(lines))

\* round(100 * mask.sum() / n, 1), in tenths
share_pct(df, Missing(_)) ==
    round_pct(Cardinality({i \in 1..Len(df) : Missing(df[i])}), Len(df))

deals_caveats(deals) ==
    IF deals = <<>> THEN <<>>
    ELSE [deals_missing_revenue_pct |->
              share_pct(deals, LAMBDA r : FEq(r.deal_value, Fin(0))),
          deals_missing_sector_pct |-> share_pct(deals, LAMBDA r : r.sector = "unknown"),
          deals_missing_close_date_pct |-> share_pct(deals, LAMBDA r : r.close_date = NaT),
          deals_total |-> Len(deals)]

wo_caveats(workorders) ==
    IF workorders = <<>> THEN <<>>
    ELSE [wo_missing_amount_pct |->
              share_pct(workorders, LAMBDA r : FEq(r.amount_excl_gst, Fin(0))),
          wo_missing_sector_pct |-> share_pct(workorders, LAMBDA r : r.sector = "unknown"),
          wo_total |-> Len(workorders)]

compute_caveats(deals, workorders) == deals_caveats(deals) @@ wo_caveats(workorders)

\* caveats.get(key, 0) > threshold, the percentages being in tenths
exceeds(d, key, threshold) == key \in DOMAIN d /\ d[key] > 10 * threshold

\* the line a signal contributes, or nothing; "(!)" stands for the warning
\* sign and " - " for the dash of the texts
caveat_line(d, key, threshold, head, tail) ==
    IF exceeds(d, key, threshold) THEN <<head \o pct_text(d[key]) \o tail>> ELSE <<>>

format_caveats_lines(d) ==
    caveat_line(d, "deals_missing_revenue_pct", 10, "(!) ",
                "% of deals have no deal value - revenue figures may be understated.")
    \o caveat_line(d, "deals_missing_sector_pct", 10, "(!) ",
                   "% of deals have no sector - sector breakdowns are partial.")
    \o caveat_line(d, "deals_missing_close_date_pct", 20, "(!) ",
                   "% of deals have no close date - time-based filters may miss some deals.")
    \o caveat_line(d, "wo_missing_amount_pct", 10, "(!) ",
                   "% of work orders have no amount - revenue from operations may be understated.")

format_caveats_text(d) == JoinLines(format_caveats_lines(d))


\* ---------------------------------------------------------------------
\* _fmt_inr (analytics.py).  A float is an integer number of `scale`-ths
\* of a rupee (10 for amounts, 1000 for weighted amounts).  The fixed-point
\* texts round to nearest, a tie going to the even digit; values that lie
\* exactly on a tie are outside the inputs used here.
\* ---------------------------------------------------------------------

\* n / d to the nearest integer, for n >= 0 and d > 0
round_div(n, d) == RoundHalfEven(n \div d, 2 * (n % d), d)

\* f"{x:.2f}" for x >= 0 given in hundredths, f"{x:.1f}" given in tenths
fixed2(hundredths) == IntText(hundredths \div 100) \o "." \o Padded(hundredths % 100, 2)
fixed1(tenths) == IntText(tenths \div 10) \o "." \o DigitText(tenths % 10)

\* f"{n:,}" for an integer n >= 0
RECURSIVE grouped(_)
grouped(n) ==
    IF n < 1000 THEN IntText(n) ELSE grouped(n \div 1000) \o "," \o Padded(n % 1000, 3)

\* f"{value:,.0f}" for a finite value
grouped0(v, scale) ==
    IF v >= 0 THEN grouped(round_div(v, scale))
    ELSE IF round_div(0 - v, scale) = 0 THEN "-0"
    ELSE "-" \o grouped(round_div(0 - v, scale))

fmt_inr_finite(v, scale) ==
    IF v = 0 THEN "₹0"
    ELSE IF v \div scale >= CRORE /\ v > 0
    THEN "₹" \o fixed2(round_div(v, scale * (CRORE \div 100))) \o " Cr"
    ELSE IF v \div scale >= LAKH /\ v > 0
    THEN "₹" \o fixed2(round_div(v, scale * (LAKH \div 100))) \o " L"
    ELSE IF v \div scale >= THOUSAND /\ v > 0
    THEN "₹" \o fixed1(round_div(v, scale * (THOUSAND \div 10))) \o "K"
    ELSE "₹" \o grouped0(v, scale)

_fmt_inr(value, scale) ==
    CASE value.k = "nan" -> "₹nan"
      [] value.k = "inf" -> IF value.v > 0 THEN "₹inf Cr" ELSE "₹-inf"
      [] OTHER -> fmt_inr_finite(value.v, scale)


\* ---------------------------------------------------------------------
\* The leadership report (analytics.py).  The pictographs of the section
\* headers are left out of the texts, "(!)" stands for the warning sign
\* and " - " for the dash.
\* ---------------------------------------------------------------------

UpperOf ==
    [c \in {Ch(LowerLetters, i) : i \in 1..Len(LowerLetters)} |->
        Ch(UpperLetters, IndexIn(LowerLetters, c))]

UpperChar(c) == IF c \in DOMAIN UpperOf THEN UpperOf[c] ELSE c

IsLetter(c) == c \in DOMAIN UpperOf \/ c \in DOMAIN LowerOf

\* str.title(): a letter that follows no letter is upper-cased, every
\* other letter lower-cased
RECURSIVE TitleFrom(_, _)
TitleFrom(s, after_letter) ==
    IF s = "" THEN ""
    ELSE (IF after_letter THEN LowerChar(Ch(s, 1)) ELSE UpperChar(Ch(s, 1)))
             \o TitleFrom(Slice(s, 2, Len(s)), IsLetter(Ch(s, 1)))

Title(s) == TitleFrom(s, FALSE)

\* the order of str on texts of blanks, digits and letters
CodeOrder == " &-/0123456789" \o UpperLetters \o "_" \o LowerLetters

RECURSIVE StrLess(_, _)
StrLess(a, b) ==
    IF b = "" THEN FALSE
    ELSE IF a = "" THEN TRUE
    ELSE IF Ch(a, 1) = Ch(b, 1) THEN StrLess(Slice(a, 2, Len(a)), Slice(b, 2, Len(b)))
    ELSE IndexIn(CodeOrder, Ch(a, 1)) < IndexIn(CodeOrder, Ch(b, 1))

\* the first key of groupby(...).sum().sort_values(ascending=False): the
\* largest sum, of equal sums the one of the smaller key (finite sums)
first_key(d) ==
    CHOOSE k \in DOMAIN d :
        \A x \in (DOMAIN d) \ {k} :
            d[k].v > d[x].v \/ (d[k].v = d[x].v /\ StrLess(k, x))

RECURSIVE sort_values_desc(_)
sorted_after(d, k) == <<k>> \o sort_values_desc([x \in (DOMAIN d) \ {k} |-> d[x]])
sort_values_desc(d) == IF DOMAIN d = {} THEN <<>> ELSE sorted_after(d, first_key(d))

\* {k: _fmt_inr(v) for k, v in by_sector.items()}, as the pairs in order
fmt_pairs(d, keys) == [i \in 1..Len(keys) |-> <<keys[i], _fmt_inr(d[keys[i]], 10)>>]
by_sector_fmt(d) == fmt_pairs(d, sort_values_desc(d))

\* str(x) of `round(100 * n / d, 1) if d > 0 else 0`
rate_text(rate, d) == IF d > 0 THEN pct_text(rate) ELSE "0"

\* the entries of pipeline_health's result that the report reads
pipeline_entries(p) ==
    IF "error" \in DOMAIN p THEN p
    ELSE IF "summary" \in DOMAIN p
    THEN [pipeline_total_fmt |-> "₹0", weighted_pipeline_fmt |-> "₹0", by_sector |-> <<>>]
    ELSE [pipeline_total_fmt |-> _fmt_inr(p.pipeline_total, 10),
          weighted_pipeline_fmt |-> _fmt_inr(p.weighted_pipeline, 1000),
          closing_this_quarter_value |-> _fmt_inr(p.closing_value, 10),
          by_sector |-> by_sector_fmt(p.by_sector)]

\* top_sector and top_sector_pct of revenue_analytics
top_sector_of(by_sector, keys) == IF keys = <<>> THEN "N/A" ELSE keys[1]

top_sector_pct_of(by_sector, keys, closed_total) ==
    IF FGt(closed_total, Fin(0))
    THEN pct_text(round_pct(by_sector[keys[1]].v, closed_total.v))
    ELSE "0"

revenue_entries_of(r, keys) ==
    [closed_total_fmt |-> _fmt_inr(r.closed_total, 10),
     by_sector |-> fmt_pairs(r.by_sector, keys),
     top_sector |-> top_sector_of(r.by_sector, keys),
     top_sector_pct |-> top_sector_pct_of(r.by_sector, keys, r.closed_total)]

\* the entries of revenue_analytics' result that the report reads
revenue_entries(r) ==
    IF "error" \in DOMAIN r THEN r
    ELSE IF "summary" \in DOMAIN r THEN [closed_total_fmt |-> "₹0", by_sector |-> <<>>]
    ELSE revenue_entries_of(r, sort_values_desc(r.by_sector))

risk_note_of(active_count) ==
    IntText(active_count) \o " active work orders - "
        \o (IF active_count > 30 THEN "team may be stretched."
            ELSE IF active_count > 15 THEN "manageable load."
            ELSE "comfortable capacity.")

\* the entries of operational_metrics' result that the report reads
operations_entries(o) ==
    IF "error" \in DOMAIN o THEN o
    ELSE [active_count |-> IntText(o.active_count),
          completed_count |-> IntText(o.completed_count),
          backlog_value |-> _fmt_inr(o.backlog_raw, 10),
          operational_risk |-> o.operational_risk,
          risk_note |-> risk_note_of(o.active_count)]

\* the entries of cross_board_analysis' result that the report reads
conversion_entries(c, total_open_closed) ==
    IF "error" \in DOMAIN c THEN c
    ELSE [conversion_rate_pct |-> rate_text(c.conversion_rate_pct, total_open_closed),
          wo_coverage_rate_pct |-> rate_text(c.wo_coverage_rate_pct, c.won_deals_count)]

\* mutant: a missing entry is shown as nothing where N/A is the default
get_or_blank(d, key, default) ==
    IF key \in DOMAIN d THEN d[key] ELSE IF default = "N/A" THEN "" ELSE default

\* dict.get(key, default)
get(d, key, default) == IF key \in DOMAIN d THEN d[key] ELSE default

\* pd.Timestamp.today().quarter: the quarter of the calendar year
calendar_quarter(today) == (Month(today) - 1) \div 3 + 1

q_label(today) ==
    "Q" \o IntText(calendar_quarter(today)) \o " FY" \o IntText(Year(today))

\* datetime.now().strftime("%d %b %Y, %H:%M IST")
generated_at_of(today, clock) ==
    Padded(today % 100, 2) \o " " \o Title(Slice(MonthNames[Month(today)], 1, 3))
        \o " " \o Padded(Year(today), 4) \o ", " \o clock \o " IST"

update_of(rev, pipeline, ops, cross, caveats_dict, today, clock) ==
    [title |-> "Leadership Update - " \o q_label(today),
     generated_at |-> generated_at_of(today, clock),
     pipeline |->
        [total_open_pipeline |-> get(pipeline, "pipeline_total_fmt", "N/A"),
         weighted_pipeline |-> get(pipeline, "weighted_pipeline_fmt", "N/A"),
         closing_this_quarter |-> get(pipeline, "closing_this_quarter_value", "N/A"),
         by_sector |-> get(pipeline, "by_sector", <<>>)],
     revenue |->
        [closed_ytd |-> get(rev, "closed_total_fmt", "N/A"),
         top_sector |-> get(rev, "top_sector", "N/A"),
         top_sector_share_pct |-> get(rev, "top_sector_pct", "0"),
         by_sector |-> get(rev, "by_sector", <<>>)],
     operations |->
        [active_work_orders |-> get(ops, "active_count", "0"),
         completed_work_orders |-> get(ops, "completed_count", "0"),
         backlog_value |-> get(ops, "backlog_value", "N/A"),
         operational_risk |-> get(ops, "operational_risk", "N/A"),
         risk_note |-> get(ops, "risk_note", "")],
     conversion |->
        [won_to_total_rate_pct |-> get(cross, "conversion_rate_pct", "0"),
         wo_coverage_rate_pct |-> get(cross, "wo_coverage_rate_pct", "0")],
     data_quality |-> caveats_dict]

\* the numbers of the update are kept as the texts str() gives them
generate_leadership_update(deals, workorders, caveats_dict, today, clock) ==
    update_of(revenue_entries(revenue_analytics(deals, "ytd", today)),
              pipeline_entries(pipeline_health(deals, "this_quarter", today)),
              operations_entries(operational_metrics(workorders)),
              conversion_entries(cross_board_analysis(deals, workorders),
                                 total_open_closed_of(deals)),
              caveats_dict, today, clock)

\* the lines of the first five sectors of a breakdown
sector_lines(pairs) ==
    IF pairs = <<>> THEN <<>>
    ELSE <<"- **By Sector:**">>
         \o [i \in 1..(IF Len(pairs) < 5 THEN Len(pairs) ELSE 5) |->
                "  - " \o Title(pairs[i][1]) \o ": " \o pairs[i][2]]

\* the notes of the report's caveats section
report_notes(dq) ==
    caveat_line(dq, "deals_missing_revenue_pct", 10, "",
                "% of deals have no value (revenue may be understated)")
    \o caveat_line(dq, "deals_missing_sector_pct", 10, "",
                   "% of deals have no sector (sector breakdown is partial)")
    \o caveat_line(dq, "wo_missing_amount_pct", 10, "",
                   "% of work orders have no amount")

CaveatsHeader == "### (!) Data Caveats"

caveats_section(notes) ==
    IF notes = <<>> THEN <<>>
    ELSE <<"", CaveatsHeader>> \o [i \in 1..Len(notes) |-> "- " \o notes[i]]

format_leadership_lines(update) ==
    <<"## " \o update.title,
      "*Generated: " \o update.generated_at \o "*",
      "",
      "### Pipeline",
      "- **Total Open Pipeline:** " \o update.pipeline.total_open_pipeline,
      "- **Weighted Pipeline:** " \o update.pipeline.weighted_pipeline,
      "- **Closing This Quarter:** " \o update.pipeline.closing_this_quarter>>
    \o sector_lines(update.pipeline.by_sector)
    \o <<"",
         "### Revenue (YTD)",
         "- **Closed Revenue:** " \o update.revenue.closed_ytd,
         "- **Top Sector:** " \o Title(update.revenue.top_sector) \o " ("
             \o update.revenue.top_sector_share_pct \o "% of closed revenue)",
         "",
         "### Operations",
         "- **Active Work Orders:** " \o update.operations.active_work_orders,
         "- **Completed Work Orders:** " \o update.operations.completed_work_orders,
         "- **Unbilled Backlog:** " \o update.operations.backlog_value,
         "- **Operational Risk:** " \o update.operations.operational_risk \o " - "
             \o update.operations.risk_note,
         "",
         "### Conversion",
         "- **Deal Win Rate:** " \o update.conversion.won_to_total_rate_pct \o "%",
         "- **Won → Work Order Coverage:** "
             \o update.conversion.wo_coverage_rate_pct \o "%">>
    \o (IF update.data_quality = <<>> THEN <<>>
        ELSE caveats_section(report_notes(update.data_quality)))

format_leadership_update(update) == JoinLines(format_leadership_lines(update))

\* ---------------------------------------------------------------------
\* The caveats and the report as calls, on frames of up to MaxCaveatRows
\* rows given by how many of their rows miss a value, a sector, a date
\* ---------------------------------------------------------------------

MaxCaveatRows == 20

CaveatSizes == {0, 3, MaxCaveatRows - 4, MaxCaveatRows}

\* n deals: the first z without value, the first d without close date,
\* the last u without sector
CaveatDeals(n, z, u, d) ==
    [i \in 1..n |->
        DealRow("Deal", IF i % 3 = 0 THEN "Won" ELSE "Open",
                IF i > n - u THEN "unknown" ELSE "mining",
                IF i <= z THEN 0 ELSE 100, 50,
                IF i <= d THEN NaT ELSE 20250410)]

\* n work orders: the first z without amount, the last u without sector
CaveatWorkOrders(n, z, u) ==
    [i \in 1..n |->
        WoRow("WO", "Deal", IF i > n - u THEN "unknown" ELSE "mining",
              IF i % 2 = 0 THEN "Ongoing" ELSE "Completed",
              IF i <= z THEN 0 ELSE 80, 30)]

CaveatDealFrames ==
    {CaveatDeals(n, z, u, d) :
        n \in CaveatSizes, z \in 0..MaxCaveatRows, u \in {0, 2, 4}, d \in {0, 4, 5}}

CaveatWorkOrderFrames ==
    {CaveatWorkOrders(n, z, u) : n \in {0, 10}, z \in {0, 1, 2, 10}, u \in {0, 5}}

LeadershipDealFrames ==
    {CaveatDeals(n, z, u, d) :
        n \in {0, 3, MaxCaveatRows}, z \in 0..3, u \in {0, 4}, d \in {0, 4, 5}}

Clocks == {"09:30"}

run_leadership_update ==
    /\ call = "leadership_update"
    /\ ~ret.done
    /\ ret' = Returned(format_leadership_update(
                  generate_leadership_update(args.deals_df, args.workorders_df,
                                             args.caveats, args.today, args.clock)))
    /\ UNCHANGED <<call, args, svars>>

ReportInit ==
    /\ SvcInit
    /\ ret = NotReturned
    /\ \/ /\ call = "compute_caveats"
          /\ args \in {[NoArgs EXCEPT !.deals_df = df, !.workorders_df = wo] :
                          df \in CaveatDealFrames, wo \in CaveatWorkOrderFrames}
       \/ /\ call = "format_caveats_text"
          /\ args \in {[NoArgs EXCEPT !.caveats = compute_caveats(df, wo)] :
                          df \in CaveatDealFrames, wo \in CaveatWorkOrderFrames}
       \/ /\ call = "leadership_update"
          /\ args \in {[NoArgs EXCEPT !.deals_df = df, !.workorders_df = wo,
                                      !.caveats = compute_caveats(df, wo),
                                      !.today = t, !.clock = c] :
                          df \in LeadershipDealFrames, wo \in CaveatWorkOrderFrames,
                          t \in Todays, c \in Clocks}

run_compute_caveats ==
    /\ call = "compute_caveats"
    /\ ~ret.done
    /\ ret' = Returned(compute_caveats(args.deals_df, args.workorders_df))
    /\ UNCHANGED <<call, args, svars>>

run_format_caveats_text ==
    /\ call = "format_caveats_text"
    /\ ~ret.done
    /\ ret' = Returned(format_caveats_text(args.caveats))
    /\ UNCHANGED <<call, args, svars>>

ReportNext ==
    \/ run_compute_caveats
    \/ run_format_caveats_text
    \/ run_leadership_update

SpecReport == ReportInit /\ [][ReportNext]_vars

\* ---------------------------------------------------------------------
\* Properties of the caveats and of the report
\* ---------------------------------------------------------------------

CountWhere(df, Missing(_)) == Cardinality({i \in 1..Len(df) : Missing(df[i])})

\* C22: compute_caveats reports for a non-empty deals frame its row count
\* and, to the nearest tenth, the percentages of rows with deal_value 0,
\* with sector 'unknown' and with no close date, for a non-empty
\* work-orders frame its row count and the percentages of rows with
\* amount 0 and with sector 'unknown'; an empty frame adds no entry; 3
\* valueless deals out of 20 are reported as 15.0.
C22_CaveatPercentages ==
    (call = "compute_caveats" /\ ret.done) =>
        /\ ~ret.raised
        /\ DOMAIN ret.value =
              (IF args.deals_df = <<>> THEN {}
               ELSE {"deals_missing_revenue_pct", "deals_missing_sector_pct",
                     "deals_missing_close_date_pct", "deals_total"})
              \cup (IF args.workorders_df = <<>> THEN {}
                    ELSE {"wo_missing_amount_pct", "wo_missing_sector_pct", "wo_total"})
        /\ args.deals_df # <<>> =>
              /\ ret.value.deals_total = Len(args.deals_df)
              /\ NearestTenth(ret.value.deals_missing_revenue_pct,
                     CountWhere(args.deals_df, LAMBDA r : r.deal_value = Fin(0)),
                     Len(args.deals_df))
              /\ NearestTenth(ret.value.deals_missing_sector_pct,
                     CountWhere(args.deals_df, LAMBDA r : r.sector = "unknown"),
                     Len(args.deals_df))
              /\ NearestTenth(ret.value.deals_missing_close_date_pct,
                     CountWhere(args.deals_df, LAMBDA r : r.close_date = NaT),
                     Len(args.deals_df))
              /\ (Len(args.deals_df) = 20
                    /\ CountWhere(args.deals_df, LAMBDA r : r.deal_value = Fin(0)) = 3)
                    => ret.value.deals_missing_revenue_pct = 150
        /\ args.workorders_df # <<>> =>
              /\ ret.value.wo_total = Len(args.workorders_df)
              /\ NearestTenth(ret.value.wo_missing_amount_pct,
                     CountWhere(args.workorders_df, LAMBDA r : r.amount_excl_gst = Fin(0)),
                     Len(args.workorders_df))
              /\ NearestTenth(ret.value.wo_missing_sector_pct,
                     CountWhere(args.workorders_df, LAMBDA r : r.sector = "unknown"),
                     Len(args.workorders_df))

\* 3 of 20 deals have no value, there are no work orders, and the deal
\* entries alone are reported, the value share as 15.0
C22_Witness ==
    /\ ReturnedFrom("compute_caveats")
    /\ Len(args.deals_df) = 20
    /\ args.workorders_df = <<>>
    /\ CountWhere(args.deals_df, LAMBDA r : r.deal_value = Fin(0)) = 3
    /\ ret.value.deals_missing_revenue_pct = 150
    /\ "wo_total" \notin DOMAIN ret.value

\* the report has a line of its own reading `line`
HasLine(text, line) == Contains("\n" \o text \o "\n", "\n" \o line \o "\n")

\* the data-quality signals and the percentage each has to exceed
Signals ==
    [deals_missing_revenue_pct |-> 10, deals_missing_sector_pct |-> 10,
     deals_missing_close_date_pct |-> 20, wo_missing_amount_pct |-> 10]

\* the words by which the section names a signal
SignalWords ==
    [deals_missing_revenue_pct |-> "% of deals have no value",
     deals_missing_sector_pct |-> "% of deals have no sector",
     deals_missing_close_date_pct |-> "close date",
     wo_missing_amount_pct |-> "% of work orders have no amount"]

Exceeding(d) == {s \in DOMAIN Signals : s \in DOMAIN d /\ d[s] > 10 * Signals[s]}

\* C21: the rendered leadership report has a caveats section if and only
\* if at least one of the four data-quality signals exceeds its threshold
\* (more than 10% of deals without value, more than 10% of deals without
\* sector, more than 20% of deals without close date, more than 10% of
\* work orders without amount), and the section names exactly the signals
\* that exceed; 15% of deals without value give the deal-value line, 5% do
\* not.
C21_CaveatsSectionIffSignal ==
    ReturnedFrom("leadership_update") =>
        /\ HasLine(ret.value, CaveatsHeader) <=> Exceeding(args.caveats) # {}
        /\ \A s \in DOMAIN Signals :
              Contains(ret.value, SignalWords[s]) <=> s \in Exceeding(args.caveats)
        /\ ("deals_missing_revenue_pct" \in DOMAIN args.caveats
              /\ args.caveats.deals_missing_revenue_pct = 150)
              => HasLine(ret.value,
                         "- 15.0% of deals have no value (revenue may be understated)")

\* the rollup of the report is zero-valued
ZeroValued(result) == "summary" \in DOMAIN result

\* C23: generate_leadership_update followed by format_leadership_update
\* returns a report for every combination of empty and non-empty frames,
\* and the report shows N/A or 0 for each figure whose rollup returned the
\* error entry or its zero-valued result (the amount 0 reads "₹0").
C23_PlaceholdersForMissingFigures ==
    (call = "leadership_update" /\ ret.done) =>
        /\ ~ret.raised
        /\ args.deals_df = <<>> =>
              /\ HasLine(ret.value, "- **Total Open Pipeline:** N/A")
              /\ HasLine(ret.value, "- **Weighted Pipeline:** N/A")
              /\ HasLine(ret.value, "- **Closing This Quarter:** N/A")
              /\ HasLine(ret.value, "- **Closed Revenue:** N/A")
              /\ HasLine(ret.value, "- **Top Sector:** N/A (0% of closed revenue)")
        /\ args.workorders_df = <<>> =>
              /\ HasLine(ret.value, "- **Active Work Orders:** 0")
              /\ HasLine(ret.value, "- **Completed Work Orders:** 0")
              /\ HasLine(ret.value, "- **Unbilled Backlog:** N/A")
              /\ HasLine(ret.value, "- **Operational Risk:** N/A - ")
        /\ (args.deals_df = <<>> \/ args.workorders_df = <<>>) =>
              /\ HasLine(ret.value, "- **Deal Win Rate:** 0%")
              /\ HasLine(ret.value, "- **Won → Work Order Coverage:** 0%")
        /\ ZeroValued(pipeline_health(args.deals_df, "this_quarter", args.today)) =>
              /\ HasLine(ret.value, "- **Total Open Pipeline:** ₹0")
              /\ HasLine(ret.value, "- **Weighted Pipeline:** ₹0")
              /\ HasLine(ret.value, "- **Closing This Quarter:** N/A")
        /\ ZeroValued(revenue_analytics(args.deals_df, "ytd", args.today)) =>
              /\ HasLine(ret.value, "- **Closed Revenue:** ₹0")
              /\ HasLine(ret.value, "- **Top Sector:** N/A (0% of closed revenue)")

\* a report for deals without work orders, no Open deal closing in the
\* quarter and no Won deal closed in the year: the revenue and pipeline
\* figures are the zero-valued ones and the operations figures are missing
C23_Witness ==
    /\ ReturnedFrom("leadership_update")
    /\ args.deals_df # <<>>
    /\ args.workorders_df = <<>>
    /\ ZeroValued(pipeline_health(args.deals_df, "this_quarter", args.today))
    /\ ZeroValued(revenue_analytics(args.deals_df, "ytd", args.today))
    /\ HasLine(ret.value, "- **Unbilled Backlog:** N/A")
    /\ HasLine(ret.value, "- **Closed Revenue:** ₹0")

ActiveRows(workorders) == SelectSeq(workorders, LAMBDA r : r.is_active)

\* C24: operational_metrics counts as active the records whose is_active
\* is true, labels the risk High when that count is greater than 30,
\* Medium when it is greater than 15 and at most 30 and Low otherwise, and
\* reports as backlog the sum of unbilled_amount over exactly the active
\* records.
C24_RiskFromActiveCount ==
    (call = "operational_metrics" /\ ret.done /\ args.workorders_df # <<>>) =>
        /\ ~ret.raised
        /\ ret.value.active_count = Len(ActiveRows(args.workorders_df))
        /\ ret.value.operational_risk =
              (IF Len(ActiveRows(args.workorders_df)) > 30 THEN "High"
               ELSE IF Len(ActiveRows(args.workorders_df)) > 15 THEN "Medium"
               ELSE "Low")
        /\ ret.value.backlog_raw = Total(ActiveRows(args.workorders_df), "unbilled_amount")

\* 31 active work orders and one more that is not active but unbilled:
\* the risk is High and the backlog leaves the inactive one out
C24_Witness ==
    /\ ReturnedFrom("operational_metrics")
    /\ Len(args.workorders_df) = 32
    /\ ret.value.active_count = 31
    /\ ret.value.operational_risk = "High"
    /\ FGt(Total(args.workorders_df, "unbilled_amount"), ret.value.backlog_raw)

\* the deals are those of the worked example
IsExample(deals) ==
    /\ Len(deals) = 3
    /\ \E a, b, c \in 1..3 :
          /\ {a, b, c} = 1..3
          /\ deals[a].status = "Won" /\ deals[a].deal_value = Fin(10 * 500000)
          /\ deals[b].status = "Open" /\ deals[b].deal_value = Fin(10 * 2000000)
          /\ deals[b].probability = 50
          /\ deals[c].status = "Dead" /\ deals[c].deal_value = Fin(10 * 100000)

WonInYearToDate(deals, today) ==
    \E i \in 1..Len(deals) :
        deals[i].status = "Won" /\ InWindow(deals[i].close_date, "ytd", today)

\* C25: for the deals A (Won, 500000, closed in the financial year to
\* date), B (Open, 2000000, probability 0.5) and C (Dead, 100000) the
\* revenue rollup over ytd returns closed_total 500000, the pipeline rollup
\* returns pipeline_total 2000000 and weighted_pipeline 1000000, and the
\* cross-entity rollup, given work orders, returns a win rate of 50%.
C25_WorkedExample ==
    /\ (call = "revenue_analytics" /\ ret.done /\ IsExample(args.deals_df)
          /\ args.period = "ytd" /\ WonInYearToDate(args.deals_df, args.today))
          => (~ret.raised /\ ret.value.closed_total = Fin(10 * 500000))
    /\ (call = "pipeline_health" /\ ret.done /\ IsExample(args.deals_df)
          /\ args.period = NoPeriod)
          => /\ ~ret.raised
             /\ ret.value.pipeline_total = Fin(10 * 2000000)
             /\ ret.value.weighted_pipeline = Fin(1000 * 1000000)
    /\ (call = "cross_board_analysis" /\ ret.done /\ IsExample(args.deals_df)
          /\ args.workorders_df # <<>>)
          => (~ret.raised /\ ret.value.conversion_rate_pct = 500)

\* the cross-entity rollup of the example's deals and some work orders has
\* returned 50.0
C25_Witness ==
    /\ ReturnedFrom("cross_board_analysis")
    /\ IsExample(args.deals_df)
    /\ args.workorders_df # <<>>
    /\ ret.value.won_deals_count = 1
    /\ ret.value.conversion_rate_pct = 500

Rollups == {"revenue_analytics", "pipeline_health", "operational_metrics",
            "cross_board_analysis"}

\* C26: a call of revenue_analytics, pipeline_health, operational_metrics
\* or cross_board_analysis, with any period, leaves the frames passed in
\* with the same rows, columns and values, and a call repeated on the same
\* frames returns what the call before it returned.
C26_RollupsArePure ==
    [][(call \in Rollups) => (args' = args /\ (ret.done => ret' = ret))]_vars

\* the cross-board rollup has returned for frames with rows, and the
\* frames have no column of normalized names
C26_Witness ==
    /\ ReturnedFrom("cross_board_analysis")
    /\ args.deals_df # <<>>
    /\ args.workorders_df # <<>>
    /\ ~HasError(ret.value)
    /\ "_name_norm" \notin DOMAIN args.deals_df[1]
    /\ "_name_norm" \notin DOMAIN args.workorders_df[1]

\* ---------------------------------------------------------------------
\* The board client (monday_client.py): _execute under its retry
\* decorator, one attempt per step, and get_board_items, one page per
\* step.  The state of a call is kept in args.client.
\* ---------------------------------------------------------------------

NoClient ==
    [attempts |-> 0, outcomes |-> <<>>, error |-> "", cursor |-> "<None>",
     all_items |-> <<>>, requests |-> <<>>, pages |-> <<>>]

\* what requests.post, raise_for_status and the errors entry of the reply
\* can come to
PostOutcomes ==
    {[kind |-> "ok", data |-> [me |-> "user"]],
     [kind |-> "ok", data |-> <<>>],
     [kind |-> "http_401", data |-> <<>>],
     [kind |-> "http_error", data |-> <<>>],
     [kind |-> "timeout", data |-> <<>>],
     [kind |-> "connection_error", data |-> <<>>],
     [kind |-> "graphql_errors", data |-> <<>>]}

\* the exception that leaves the body of _execute, "" when it returns
exception_of(outcome) == IF outcome.kind = "ok" THEN "" ELSE "MondayAPIError"

\* retry=retry_if_exception_type((requests.ConnectionError, requests.Timeout))
retry_if_exception_type(exc) == exc \in {"ConnectionError", "Timeout"}

\* stop=stop_after_attempt(3)
STOP_AFTER_ATTEMPT == 3
stop_after_attempt(n) == n >= STOP_AFTER_ATTEMPT

attempt_done(outcome, exc, n) ==
    /\ args' = [args EXCEPT !.client.attempts = n,
                            !.client.outcomes = Append(@, outcome),
                            !.client.error = exc]
    /\ ret' = IF exc = "" THEN Returned(outcome.data)
              ELSE IF retry_if_exception_type(exc) /\ ~stop_after_attempt(n) THEN ret
              ELSE Raised
    /\ UNCHANGED <<call, svars>>

\* one attempt of _execute and the decorator's decision after it
execute_attempt ==
    /\ call = "_execute"
    /\ ~ret.done
    /\ \E outcome \in PostOutcomes :
          attempt_done(outcome, exception_of(outcome), args.client.attempts + 1)

\* None as a cursor, a text or a value
NoCursor == "<None>"

\* bool(x) for a text or None
truthy(x) == x # NoCursor /\ x # ""

\* a or b
py_or(a, b) == IF truthy(a) THEN a ELSE b

\* cv.get("text") or cv.get("value") or ""
cell_of(cv) == py_or(py_or(cv.text, cv.value), "")

\* flat = {"_item_id": ..., "_item_name": ...} and then the cells, a later
\* cell replacing an earlier entry of the same key
RECURSIVE flat_from(_, _)
flat_from(flat, column_values) ==
    IF column_values = <<>> THEN flat
    ELSE flat_from((Head(column_values).id :> cell_of(Head(column_values))) @@ flat,
                   Tail(column_values))

flat_of(item) ==
    flat_from([_item_id |-> item.id, _item_name |-> item.name], item.column_values)

flat_items(items) == [i \in 1..Len(items) |-> flat_of(items[i])]

\* mutant: a page without items does not end the loop
last_without_cursor(cursor, items) == ~truthy(cursor)

\* `if not cursor or not items: break`
page_is_last(cursor, items) == ~truthy(cursor) \/ items = <<>>

\* the cursor variable of the request, when one is sent
request_of(cursor) == IF truthy(cursor) THEN [cursor |-> cursor] ELSE <<>>

items_page_of(board) ==
    IF "items_page" \in DOMAIN board THEN board.items_page ELSE <<>>

items_of(page) == IF "items" \in DOMAIN page THEN page.items ELSE <<>>

cursor_of(page) == IF "cursor" \in DOMAIN page THEN page.cursor ELSE NoCursor

page_read(reply, items, cursor) ==
    /\ args' = [args EXCEPT !.client.requests = Append(@, request_of(args.client.cursor)),
                            !.client.pages = Append(@, reply),
                            !.client.all_items = @ \o flat_items(items),
                            !.client.cursor = cursor]
    /\ ret' = IF page_is_last(cursor, items)
              THEN Returned(args.client.all_items \o flat_items(items))
              ELSE ret

page_fetched(reply) ==
    /\ IF reply.kind # "ok"
       THEN /\ ret' = Raised
            /\ args' = [args EXCEPT
                           !.client.requests = Append(@, request_of(args.client.cursor)),
                           !.client.error = "MondayAPIError"]
       ELSE IF reply.boards = <<>>
       THEN /\ ret' = Returned(args.client.all_items)
            /\ args' = [args EXCEPT
                           !.client.requests = Append(@, request_of(args.client.cursor)),
                           !.client.pages = Append(@, reply)]
       ELSE page_read(reply, items_of(items_page_of(reply.boards[1])),
                      cursor_of(items_page_of(reply.boards[1])))
    /\ UNCHANGED <<call, svars>>

MaxPages == 4
MaxPageItems == 2

\* the item j of page p of the board: the items differ in which of text
\* and value their cell has
ServerItem(p, j) ==
    [id |-> IntText(10 * p + j), name |-> "Item " \o IntText(10 * p + j),
     column_values |->
        <<[id |-> "status", text |-> IF j = 1 THEN "Open" ELSE NoCursor,
           value |-> IF (p + j) % 2 = 0 THEN "{}" ELSE NoCursor]>>]

ServerItems(p, n) == [j \in 1..n |-> ServerItem(p, j)]

\* the cursors page p can carry; the last page the source has carries none
ServerCursors(p) ==
    {NoCursor, ""} \cup (IF p < MaxPages THEN {"cursor-" \o IntText(p + 1)} ELSE {})

\* the replies to the request of page p
Replies(p) ==
    {[kind |-> "error", boards |-> <<>>],
     [kind |-> "ok", boards |-> <<>>],
     [kind |-> "ok", boards |-> <<[id |-> "board"]>>]}
    \cup {[kind |-> "ok",
           boards |-> <<[items_page |-> [cursor |-> c, items |-> ServerItems(p, n)]]>>] :
             c \in ServerCursors(p), n \in 0..MaxPageItems}

\* one pass of the loop of get_board_items
fetch_page ==
    /\ call = "get_board_items"
    /\ ~ret.done
    /\ \E reply \in Replies(Len(args.client.pages) + 1) : page_fetched(reply)

ClientInit ==
    /\ SvcInit
    /\ ret = NotReturned
    /\ call \in {"_execute", "get_board_items"}
    /\ args = [NoArgs EXCEPT !.client = NoClient]

ClientNext ==
    \/ execute_attempt
    \/ fetch_page

SpecClient == ClientInit /\ [][ClientNext]_vars

\* ---------------------------------------------------------------------
\* Properties of the board client
\* ---------------------------------------------------------------------

LastOutcome == args.client.outcomes[Len(args.client.outcomes)]

\* C27: a request that fails with a connection error or a timeout is
\* tried again, so that such a failure is reported to the caller only
\* after 3 attempts, and a call whose later attempt succeeds returns.
C27_RetriedUpToThreeTimes ==
    (call = "_execute" /\ ret.done /\ ret.raised
        /\ LastOutcome.kind \in {"timeout", "connection_error"})
        => args.client.attempts = 3

\* the pages that have been read
PagesRead == args.client.pages

PageItems(reply) ==
    IF reply.boards = <<>> \/ "items_page" \notin DOMAIN reply.boards[1] THEN <<>>
    ELSE reply.boards[1].items_page.items

PageCursor(reply) ==
    IF reply.boards = <<>> \/ "items_page" \notin DOMAIN reply.boards[1] THEN NoCursor
    ELSE reply.boards[1].items_page.cursor

\* the page ends the listing: no board, no cursor or no items
EndsListing(reply) ==
    \/ reply.boards = <<>>
    \/ PageCursor(reply) \in {NoCursor, ""}
    \/ PageItems(reply) = <<>>

RECURSIVE ItemIdsOf(_)
ItemIdsOf(pages) ==
    IF pages = <<>> THEN <<>>
    ELSE [i \in 1..Len(PageItems(Head(pages))) |-> PageItems(Head(pages))[i].id]
             \o ItemIdsOf(Tail(pages))

\* C29: get_board_items asks for the first page without cursor and for
\* each further page with the cursor of the page before it, reads no page
\* after one that has no cursor or no items or names no board, and returns
\* the items of the pages it read in page order, each exactly once.
C29_PagesInOrder ==
    call = "get_board_items" =>
        /\ \A k \in 1..Len(args.client.requests) :
              /\ k = 1 => args.client.requests[k] = <<>>
              /\ (k > 1 /\ k - 1 <= Len(PagesRead)) =>
                    /\ ~EndsListing(PagesRead[k - 1])
                    /\ args.client.requests[k] = [cursor |-> PageCursor(PagesRead[k - 1])]
        /\ (ret.done /\ ~ret.raised) =>
              /\ PagesRead # <<>>
              /\ EndsListing(PagesRead[Len(PagesRead)])
              /\ [i \in 1..Len(ret.value) |-> ret.value[i]._item_id] = ItemIdsOf(PagesRead)
              /\ \A i, j \in 1..Len(ret.value) :
                    ret.value[i]._item_id = ret.value[j]._item_id => i = j
        /\ ~ret.done => \A k \in 1..Len(PagesRead) : ~EndsListing(PagesRead[k])

\* three pages have been read, the third without cursor, and the items of
\* all three are returned
C29_Witness ==
    /\ ReturnedFrom("get_board_items")
    /\ Len(PagesRead) = 3
    /\ Len(args.client.requests) = 3
    /\ PageItems(PagesRead[3]) # <<>>
    /\ Len(ret.value) = Len(PageItems(PagesRead[1])) + Len(PageItems(PagesRead[2]))
                           + Len(PageItems(PagesRead[3]))
    /\ Len(ret.value) > 3

\* the months of the financial quarters, as the label words them and as
\* numbers
QuarterWords == <<"Apr-Jun", "Jul-Sep", "Oct-Dec", "Jan-Mar">>
QuarterMonths == <<<<4, 6>>, <<7, 9>>, <<10, 12>>, <<1, 3>>>>

\* C30: in every calendar month the quarter label of the system prompt
\* names the financial quarter that contains the month (Q1 Apr-Jun, Q2
\* Jul-Sep, Q3 Oct-Dec, Q4 Jan-Mar), which is the quarter whose bounds
\* _current_quarter_bounds returns for that month.
C30_LabelNamesFinancialQuarter ==
    (call = "_get_current_quarter_label" /\ ret.done) =>
        /\ StartsWith(ret.value, "Q" \o IntText(FinancialQuarter(Month(args.today))) \o " ")
        /\ Contains(ret.value, "(" \o QuarterWords[FinancialQuarter(Month(args.today))] \o " ")
        /\ \E q \in 1..4 :
              /\ StartsWith(ret.value, "Q" \o IntText(q) \o " ")
              /\ Month(_current_quarter_bounds(args.today)[1]) = QuarterMonths[q][1]
              /\ Month(_current_quarter_bounds(args.today)[2]) = QuarterMonths[q][2]

\* ---------------------------------------------------------------------
\* The conversation (agent.py, prompts.py): answer() called turn by turn
\* by a client that sends the messages so far as history.  The state of
\* the conversation is kept in args.chat.  The pictographs of the texts
\* and the backquotes of the texts are left out, "(!)" stands for the
\* warning sign.
\* ---------------------------------------------------------------------

CLARIFICATION_TEMPLATES ==
    [how_are_we_doing |->
        "Could you clarify what you'd like to know? Are you asking about:\n"
            \o "- **Revenue** (how much we've earned?)\n"
            \o "- **Pipeline** (open deals and future revenue?)\n"
            \o "- **Operations** (work order execution and capacity?)\n"
            \o "- **Everything** (full leadership update?)",
     revenue_ambiguous |->
        "When you say 'revenue', do you mean:\n"
            \o "- **Closed revenue** (deals already won with payments received?)\n"
            \o "- **Pipeline revenue** (open deals that haven't closed yet?)\n"
            \o "- **Billed revenue** (amounts invoiced from work orders?)",
     time_ambiguous |->
        "Which time period are you asking about?\n- **This month**\n"
            \o "- **This quarter** (current financial quarter)\n"
            \o "- **Year-to-date** (this financial year from April)\n- **All time**",
     generic |->
        "Could you clarify your question? I can help with revenue, pipeline, "
            \o "operations, conversion rates, or a full leadership update."]

\* any(w in q for w in words)
any_in(words, q) == \E i \in 1..Len(words) : Contains(q, words[i])

\* the most recent message of the assistant holds one of the phrases
last_assistant_has(history, phrases) ==
    /\ \E i \in 1..Len(history) : history[i].role \in {"assistant", "model"}
    /\ any_in(phrases,
              Lower(history[CHOOSE i \in 1..Len(history) :
                                /\ history[i].role \in {"assistant", "model"}
                                /\ \A j \in (i + 1)..Len(history) :
                                      history[j].role \notin {"assistant", "model"}].content))

\* mutant: "are you asking" is not one of the phrases
_was_last_clarification_three(history) ==
    last_assistant_has(history, <<"do you mean:", "could you clarify", "when you say">>)

_was_last_clarification(history) ==
    last_assistant_has(history, <<"do you mean:", "could you clarify", "when you say",
                                  "are you asking">>)

RECURSIVE infer_from(_, _)
infer_from_words(q, history, i) ==
    IF any_in(<<"revenue", "income", "billed", "closed", "pipeline">>, q) THEN "revenue"
    ELSE IF any_in(<<"work order", "operation", "execution", "active", "backlog">>, q)
    THEN "operations"
    ELSE IF any_in(<<"convert", "conversion", "win rate", "cross">>, q) THEN "crossboard"
    ELSE IF any_in(<<"pipeline", "open deal", "stage">>, q) THEN "pipeline"
    ELSE infer_from(history, i - 1)

\* the messages of the user from the latest back to message 1
infer_from(history, i) ==
    IF i = 0 THEN "revenue"
    ELSE IF history[i].role # "user" THEN infer_from(history, i - 1)
    ELSE infer_from_words(Lower(history[i].content), history, i)

_infer_intent_from_clarification_context(history) == infer_from(history, Len(history))

_get_clarification(query) ==
    IF any_in(<<"doing", "status", "overall", "update", "how are">>, Lower(query))
    THEN CLARIFICATION_TEMPLATES.how_are_we_doing
    ELSE IF any_in(<<"revenue", "income", "money">>, Lower(query))
    THEN CLARIFICATION_TEMPLATES.revenue_ambiguous
    ELSE IF any_in(<<"when", "period", "time", "month", "quarter">>, Lower(query))
    THEN CLARIFICATION_TEMPLATES.time_ambiguous
    ELSE CLARIFICATION_TEMPLATES.generic

\* the call of the language model raises
LLM_FAILS == "<exception>"

VALID_INTENTS ==
    {"revenue", "pipeline", "operations", "crossboard", "leadership", "general", "ambiguous"}

\* text.split()[0], "" standing for the IndexError of an empty list
RECURSIVE first_word(_)
first_word(s) ==
    IF s = "" \/ IsSpace(Ch(s, 1)) THEN "" ELSE Ch(s, 1) \o first_word(Slice(s, 2, Len(s)))

\* _classify_intent on the reply of the language model
intent_of_reply(word) == IF word \in VALID_INTENTS THEN word ELSE "general"

_classify_intent(reply) ==
    IF reply = LLM_FAILS THEN "general" ELSE intent_of_reply(first_word(Lower(Strip(reply))))

LLM_ERROR_TEXT ==
    "(!) **No API key configured.**\n\nAdd your free Groq key to the .env file:\n"
        \o "\nGROQ_API_KEY=your_key_here\n\n"
        \o "Get a free key at [console.groq.com](https://console.groq.com), "
        \o "then restart the server."

NO_DATA_TEXT ==
    "(!) I don't have Monday.com data loaded yet. Please configure your MONDAY_API_TOKEN, "
        \o "DEALS_BOARD_ID, and WORKORDERS_BOARD_ID in the .env file, "
        \o "then restart the server."

NO_LEADERSHIP_TEXT ==
    "(!) Cannot generate leadership update - Monday.com data not loaded. "
        \o "Please configure your API credentials."

ANSWER_ERROR_TEXT ==
    "(!) I encountered an error generating your response. Please try again.\n\nError: "

\* the report of format_leadership_update, by its first line
PLAIN_REPORT == "## Leadership Update"

reply_of(response, intent, used_data) ==
    [response |-> response, intent |-> intent, used_data |-> used_data]

_generate_leadership_response(chat, llm_text) ==
    IF ~chat.deals_loaded \/ ~chat.workorders_loaded
    THEN reply_of(NO_LEADERSHIP_TEXT, "leadership", FALSE)
    ELSE IF llm_text = LLM_FAILS THEN reply_of(PLAIN_REPORT, "leadership", TRUE)
    ELSE reply_of(llm_text, "leadership", TRUE)

answer_with(intent, chat, llm_text) ==
    IF intent = "leadership" THEN _generate_leadership_response(chat, llm_text)
    ELSE IF ~chat.deals_loaded /\ ~chat.workorders_loaded
    THEN reply_of(NO_DATA_TEXT, intent, FALSE)
    ELSE IF llm_text = LLM_FAILS
    THEN reply_of(ANSWER_ERROR_TEXT \o "Exception", intent, FALSE)
    ELSE reply_of(llm_text, intent, TRUE)

answer_routed(intent, was_clarification, query, chat, llm_text) ==
    IF intent = "ambiguous" /\ ~was_clarification
    THEN reply_of(_get_clarification(query), "ambiguous", FALSE)
    ELSE answer_with(IF intent = "ambiguous" THEN "general" ELSE intent, chat, llm_text)

answer_classified(was_clarification, query, history, chat, llm_reply, llm_text) ==
    answer_routed(IF was_clarification
                  THEN _infer_intent_from_clarification_context(history)
                  ELSE _classify_intent(llm_reply),
                  was_clarification, query, chat, llm_text)

\* answer(query, conversation_history); llm_reply is what the language
\* model says to the classifier prompt, llm_text to the answer prompt
answer(query, history, chat, llm_reply, llm_text) ==
    IF chat.llm_error THEN reply_of(LLM_ERROR_TEXT, "ambiguous", FALSE)
    ELSE answer_classified(_was_last_clarification(history), query, history, chat,
                           llm_reply, llm_text)

MaxTurns == 2

Queries ==
    {"How are we doing?", "Which month?", "Hmm", "Closed revenue"}

ClassifierReplies == {"Ambiguous - unclear\n", "leadership", "", LLM_FAILS}

AnswerTexts == {"Closed revenue is 5.00 L.", "Could you clarify the sector?", LLM_FAILS}

NoChat ==
    [llm_error |-> FALSE, deals_loaded |-> FALSE, workorders_loaded |-> FALSE,
     history |-> <<>>, results |-> <<>>]

turn_done(query, result) ==
    /\ args' = [args EXCEPT
                   !.chat.history = @ \o <<[role |-> "user", content |-> query],
                                           [role |-> "assistant",
                                            content |-> result.response]>>,
                   !.chat.results = Append(@, result)]
    /\ ret' = Returned(result)
    /\ UNCHANGED <<call, svars>>

\* one request of /chat: the client sends a message and the history
chat_turn ==
    /\ call = "answer"
    /\ Len(args.chat.results) < MaxTurns
    /\ \E query \in Queries, llm_reply \in ClassifierReplies, llm_text \in AnswerTexts :
          turn_done(query, answer(query, args.chat.history, args.chat, llm_reply, llm_text))

ChatInit ==
    /\ SvcInit
    /\ ret = NotReturned
    /\ call = "answer"
    /\ args \in {[NoArgs EXCEPT !.chat = [NoChat EXCEPT !.llm_error = e,
                                                        !.deals_loaded = d[1],
                                                        !.workorders_loaded = d[2]]] :
                    e \in BOOLEAN, d \in {<<FALSE, FALSE>>, <<TRUE, FALSE>>, <<TRUE, TRUE>>}}

ChatNext == chat_turn

SpecChat == ChatInit /\ [][ChatNext]_vars

\* ---------------------------------------------------------------------
\* Properties of the conversation
\* ---------------------------------------------------------------------

ClarificationTexts ==
    {CLARIFICATION_TEMPLATES[t] : t \in DOMAIN CLARIFICATION_TEMPLATES}

\* the history the client sent in turn k
HistoryOfTurn(k) == SubSeq(args.chat.history, 1, 2 * (k - 1))

AsksForClarification(result) ==
    result.intent = "ambiguous" /\ result.response \in ClarificationTexts

\* C28: every clarification text of the agent is recognized by
\* _was_last_clarification, and in a turn whose history has a
\* clarification as the most recent message of the assistant, answer()
\* settles on an intent other than ambiguous and returns an answer or a
\* no-data or error message and not a clarification; so no two turns in a
\* row ask for clarification.
C28_NoClarificationTwice ==
    call = "answer" =>
        /\ args.chat.results = <<>> =>
              \A text \in ClarificationTexts :
                 _was_last_clarification(<<[role |-> "assistant", content |-> text]>>)
        /\ \A k \in 1..Len(args.chat.results) :
              _was_last_clarification(HistoryOfTurn(k)) =>
                 /\ args.chat.results[k].intent # "ambiguous"
                 /\ args.chat.results[k].response \notin ClarificationTexts
        /\ \A k \in 2..Len(args.chat.results) :
              AsksForClarification(args.chat.results[k - 1])
                 => ~AsksForClarification(args.chat.results[k])

\* the agent asked which period is meant, and the next turn, whose message
\* names nothing, was answered from the data
C28_Witness ==
    /\ ReturnedFrom("answer")
    /\ Len(args.chat.results) = 2
    /\ args.chat.results[1].response = CLARIFICATION_TEMPLATES.time_ambiguous
    /\ args.chat.history[3].content = "Hmm"
    /\ args.chat.results[2].used_data
    /\ args.chat.results[2].intent = "revenue"

====
